---- MODULE Spec2Model ----
(***************************************************************************)
(* Walk-forward evaluation core of FcstLabPro.                             *)
(*                                                                         *)
(* The module models walk_forward_split (src/data/splitter.py) and         *)
(* run_walk_forward (src/evaluation/backtest.py) as one state machine:     *)
(* the fold generator's while loop runs one iteration per step, then the   *)
(* driver's for loop runs one statement group per step (create, fit,       *)
(* predict, predict_proba, metrics, feature_importance, append).           *)
(*                                                                         *)
(* Rows of X and y are identified by their 0-based position.  The label    *)
(* of row r is represented by r itself and the prediction of model         *)
(* instance m for row r by the pair <<m, r>>, so that every sequence the   *)
(* driver builds says which rows and which instance it came from.  The     *)
(* importance vector of instance m is represented by the number 2^(m-1),   *)
(* so that a sum of importances says which instances went into it.         *)
(***************************************************************************)
EXTENDS Integers, Sequences, FiniteSets, TLC

(* ---------------------------------------------------------------------- *)
(* Bounds of the explored inputs                                          *)
(* ---------------------------------------------------------------------- *)
MaxN == 3
MaxOos == 2
MaxStep == 2
MaxLabels == 2
MaxNames == 2
MaxPts == 2
MaxCand == 2
MaxRows == 3
MaxInst == 2

\* len(X): the number of rows handed to run_walk_forward
NSamplesVals == 0..MaxN
\* init_train, oos_window and step are unvalidated Python ints: zero and a
\* negative value are explored next to the sensible ones
InitTrainVals == (0 - 1)..(MaxN + 1)
OosVals == (0 - 1)..MaxOos
StepVals == (0 - 1)..MaxStep

\* Cap on the length of the fold list built by the while loop.  A call whose
\* loop terminates within the bounds above builds at most MaxN + 3 folds
\* (n_samples = MaxN, init_train = oos_window = -1, step = 1), so only a loop
\* whose condition can never become false reaches the cap.
MaxFolds == MaxN + 4

\* Python's None for a value that is otherwise Some(x)
None == <<>>
Some(x) == <<x>>
\* no model bound yet (instances are numbered from 1)
NoModel == 0
\* no exception
NoError == "None"

Min(a, b) == IF a <= b THEN a ELSE b
Max(a, b) == IF a >= b THEN a ELSE b

VARIABLES
    MODEL_REGISTRY,  \* models/registry.py _MODEL_REGISTRY: name -> class
    model_type,      \* run_walk_forward argument
    n_samples,       \* len(X)
    init_train,      \* run_walk_forward / walk_forward_split argument
    oos_window,      \* run_walk_forward / walk_forward_split argument
    step,            \* run_walk_forward / walk_forward_split argument
    pc,              \* position in the code
    folds,           \* walk_forward_split: folds
    fold_id,         \* walk_forward_split: fold_id
    train_end,       \* walk_forward_split: train_end
    k,               \* run_walk_forward: position of `fold` in folds (1-based, 0 before the loop)
    n_inst,          \* number of model instances constructed so far
    model,           \* run_walk_forward: model (instance id, NoModel before the first fold)
    y_pred,          \* run_walk_forward: y_pred of the current fold
    y_proba,         \* run_walk_forward: y_proba of the current fold
    metrics,         \* run_walk_forward: metrics of the current fold
    fi,              \* run_walk_forward: fi of the current fold
    importance_sum,  \* run_walk_forward: importance_sum
    all_y_true,      \* run_walk_forward: all_y_true (list of arrays)
    all_y_pred,      \* run_walk_forward: all_y_pred (list of arrays)
    result,          \* the BacktestResult under construction
    returned,        \* TRUE once run_walk_forward has returned result
    error,           \* the exception that left run_walk_forward, NoError if none
    trace            \* history: every call on a model instance and every driver step

\* compute_metrics (src/evaluation/metrics.py)
VARIABLES
    m_pc,            \* position in compute_metrics
    m_y_true,        \* compute_metrics argument y_true
    m_y_pred,        \* compute_metrics argument y_pred
    metric_names,    \* compute_metrics argument metric_names (None or Some(list))
    m_todo,          \* compute_metrics: the names the for loop has still to visit
    results,         \* compute_metrics: results (name -> value)
    m_error,         \* the exception that left compute_metrics, NoError if none
    warnings         \* what logger.warning has been called with, in order

metVars == <<m_pc, m_y_true, m_y_pred, metric_names, m_todo, results, m_error>>

driverVars == <<MODEL_REGISTRY, model_type, n_samples, init_train, oos_window, step,
                pc, folds, fold_id, train_end, k, n_inst, model, y_pred, y_proba,
                metrics, fi, importance_sum, all_y_true, all_y_pred, result,
                returned, error, trace>>

\* optimize_threshold (src/evaluation/threshold_optimizer.py)
VARIABLES
    o_pc,            \* position in optimize_threshold
    o_y_true,        \* optimize_threshold argument y_true (0/1 labels)
    o_y_proba,       \* optimize_threshold argument y_proba, in thousandths
    metric,          \* optimize_threshold argument metric
    thresholds,      \* optimize_threshold argument thresholds (None or Some(list))
    min_precision,   \* optimize_threshold argument min_precision (a fraction)
    o_todo,          \* optimize_threshold: the candidates the loop has still to visit
    best_threshold,  \* optimize_threshold: best_threshold, in thousandths
    best_score,      \* optimize_threshold: best_score (a fraction or -inf)
    o_error          \* the exception that left optimize_threshold, NoError if none

thrVars == <<o_pc, o_y_true, o_y_proba, metric, thresholds, min_precision,
             o_todo, best_threshold, best_score, o_error>>

\* run_ensemble_evaluation (src/evaluation/ensemble.py); its arguments
\* init_train, oos_window and step are the variables of those names above
VARIABLES
    e_pc,            \* position in run_ensemble_evaluation
    close,           \* df["close"], row by row
    regime_bull,     \* df["regime_bull"], row by row (ensemble.py:58)
    T_bull,          \* bull_config["label"]["T"]
    T_bear,          \* bear_config["label"]["T"]
    drop_bull,       \* leading rows build_features drops from bull_df
    drop_bear,       \* leading rows build_features drops from bear_df
    bull_label,      \* label_func(bull_df, ...): index label -> label or nan
    bear_label,      \* label_func(bear_df, ...): index label -> label or nan
    valid_idx,       \* valid_idx, the common index labels in order
    regime,          \* regime, aligned with valid_idx
    y_bull,          \* y_bull, aligned with valid_idx
    y_bear,          \* y_bear, aligned with valid_idx
    bull_result,     \* bull_result.folds
    bear_result,     \* bear_result.folds
    e_folds,         \* folds of ensemble.py:154 the merge loop has still to visit
    e_all_y_true,    \* the list all_y_true of ensemble.py:156
    e_all_y_pred,    \* the list all_y_pred of ensemble.py:157
    e_all_regime,    \* the list all_regime of ensemble.py:158
    combined_metrics,\* combined_metrics, None until computed
    e_error          \* the exception that left run_ensemble_evaluation

ensVars == <<e_pc, close, regime_bull, T_bull, T_bear, drop_bull, drop_bear,
             bull_label, bear_label, valid_idx, regime, y_bull, y_bear,
             bull_result, bear_result, e_folds, e_all_y_true, e_all_y_pred,
             e_all_regime, combined_metrics, e_error>>

\* calls of the model registry made from outside a run (src/models/registry.py)
VARIABLES
    r_call,          \* the last registry call: its operation and name argument
    r_value,         \* what that call returned, None if it raised
    r_error,         \* the exception that left that call, NoError if none
    instances        \* the objects create_model has constructed, oldest first

regVars == <<r_call, r_value, r_error, instances>>

\* a caller that calls walk_forward_split twice with the same arguments
VARIABLES
    earlier          \* what the first of the two calls did: None until it is over

\* _deep_merge (src/experiment/config.py)
VARIABLES
    dm_pc,           \* position in _deep_merge
    heap,            \* the dict objects that exist, by address
    base_value,      \* the value of the argument base when the call was made
    override_value,  \* the value of the argument override when the call was made
    dm_base,         \* _deep_merge argument base: the address of a dict
    dm_override,     \* _deep_merge argument override: the address of a dict
    dm_result        \* the returned reference, None until the call returns

dmVars == <<dm_pc, heap, base_value, override_value, dm_base, dm_override, dm_result>>

\* everything that is not state of walk_forward_split / run_walk_forward
auxVars == <<metVars, thrVars, ensVars, regVars, dmVars, earlier, warnings>>

vars == <<driverVars, auxVars>>

inputs == <<MODEL_REGISTRY, model_type, n_samples, init_train, oos_window, step>>
splitVars == <<folds, fold_id, train_end>>
foldLocals == <<y_pred, y_proba, metrics, fi>>
accVars == <<importance_sum, all_y_true, all_y_pred, result>>

(* ---------------------------------------------------------------------- *)
(* Python slicing of a length-n array: X[a:b]                             *)
(* ---------------------------------------------------------------------- *)
\* position a slice bound denotes: negative bounds count from the end,
\* everything is clamped to 0..n
PyIndex(n, i) == IF i < 0 THEN Max(i + n, 0) ELSE Min(i, n)

\* the row positions selected by X[a:b], in order
SliceRows(n, a, b) ==
    LET lo == PyIndex(n, a)
        hi == PyIndex(n, b)
    IN  [j \in 1..Max(hi - lo, 0) |-> lo + j - 1]

SeqRange(s) == {s[j] : j \in 1..Len(s)}

\* the sum of a sequence of numbers (np.sum, ndarray.sum)
RECURSIVE SumSeq(_)
SumSeq(s) == IF s = <<>> THEN 0 ELSE Head(s) + SumSeq(Tail(s))

RECURSIVE Concat(_)
\* np.concatenate of a list of arrays
Concat(lst) == IF lst = <<>> THEN <<>> ELSE Head(lst) \o Concat(Tail(lst))

(* ---------------------------------------------------------------------- *)
(* walk_forward_split                                                     *)
(* ---------------------------------------------------------------------- *)
\* splitter.py:46
InitTrainTooLarge(it, n) == it >= n

\* splitter.py:53, a window ending at the last sample is not taken
LoopCond_Strict(te, oos, n) == te + oos < n

\* splitter.py:53
LoopCond(te, oos, n) == te + oos <= n

\* splitter.py:54-63
MkFold(fid, te, oos, n) ==
    [fold_id |-> fid,
     train_start |-> 0,
     train_end |-> te,
     test_start |-> te,
     test_end |-> Min(te + oos, n)]

\* the counter is never advanced
NextFoldId_Stuck(fid) == fid

\* splitter.py:65
NextFoldId(fid) == fid + 1

\* splitter.py:66, the window slides by one sample whatever the step
NextTrainEnd_ByOne(te, st) == te + 1

\* splitter.py:66
NextTrainEnd(te, st) == te + st

\* splitter.py:49, one list shared by all calls (a module-level list or a
\* mutable default argument)
NewFoldList_Shared(old) == old

\* splitter.py:49: folds = [], a new list in every call
NewFoldList(old) == <<>>

\* the emptiness check is missing
NoFolds_Unchecked(fs) == FALSE

\* splitter.py:68
NoFolds(fs) == fs = <<>>

Raise(e) ==
    /\ pc' = "raised"
    /\ error' = e

\* splitter.py:46-51
SplitCheck ==
    /\ pc = "wfs_check"
    /\ IF InitTrainTooLarge(init_train, n_samples)
       THEN /\ Raise("ValueError")
            /\ UNCHANGED splitVars
       ELSE /\ pc' = "wfs_loop"
            /\ folds' = NewFoldList(folds)
            /\ fold_id' = 0
            /\ train_end' = init_train
            /\ UNCHANGED error
    /\ UNCHANGED <<auxVars, inputs, k, n_inst, model, foldLocals, accVars, returned, trace>>

\* splitter.py:53-66, one iteration of the while loop
SplitLoop ==
    /\ pc = "wfs_loop"
    /\ LoopCond(train_end, oos_window, n_samples)
    /\ Len(folds) < MaxFolds
    /\ folds' = Append(folds, MkFold(fold_id, train_end, oos_window, n_samples))
    /\ fold_id' = NextFoldId(fold_id)
    /\ train_end' = NextTrainEnd(train_end, step)
    /\ UNCHANGED <<auxVars, inputs, pc, k, n_inst, model, foldLocals, accVars, returned,
                   error, trace>>

\* splitter.py:53 (condition false), 68-73; backtest.py:74-79
SplitExit ==
    /\ pc = "wfs_loop"
    /\ ~LoopCond(train_end, oos_window, n_samples)
    /\ IF NoFolds(folds)
       THEN Raise("ValueError")
       ELSE /\ pc' = "for"
            /\ UNCHANGED error
    /\ UNCHANGED <<auxVars, inputs, splitVars, k, n_inst, model, foldLocals, accVars,
                   returned, trace>>

(* ---------------------------------------------------------------------- *)
(* run_walk_forward                                                       *)
(* ---------------------------------------------------------------------- *)
\* the training slice runs to the end of the test window
TrainRows_ThroughTest(f) == SliceRows(n_samples, f.train_start, f.test_end)

\* backtest.py:82-83  X[fold.train_start:fold.train_end]
TrainRows(f) == SliceRows(n_samples, f.train_start, f.train_end)

\* backtest.py:84-85  X[fold.test_start:fold.test_end]
TestRows(f) == SliceRows(n_samples, f.test_start, f.test_end)

Event(op, inst, rows, ok) ==
    [op |-> op, fold |-> k, inst |-> inst, rows |-> rows, ok |-> ok]

\* backtest.py:81, the for statement: next fold or fall through to line 127
ForNext ==
    /\ pc = "for"
    /\ IF k < Len(folds)
       THEN /\ k' = k + 1
            /\ pc' = "create"
       ELSE /\ pc' = "aggregate"
            /\ UNCHANGED k
    /\ UNCHANGED <<auxVars, inputs, splitVars, n_inst, model, foldLocals, accVars,
                   returned, error, trace>>

\* one object is constructed for the first fold and handed out again afterwards
\* the registry once the model modules are imported: lgbm.py:29-30,
\* lgbm_regressor.py:22-23, stacking.py:105-106
ImportedRegistry ==
    [n \in {"lightgbm", "lightgbm_regressor", "stacking"} |->
        CASE n = "lightgbm" -> "LightGBMModel"
          [] n = "lightgbm_regressor" -> "LightGBMRegressor"
          [] n = "stacking" -> "StackingModel"]

NewInstance_Reused(n) == IF n = 0 THEN 1 ELSE n

\* registry.py:32-33 create_model: cls(params=params) constructs an object that
\* is none of the n constructed before
NewInstance(n) == n + 1

\* backtest.py:88, registry.py:22-33
CreateModel ==
    /\ pc = "create"
    /\ IF model_type \in DOMAIN MODEL_REGISTRY
       THEN /\ n_inst' = n_inst + 1
            /\ model' = NewInstance(n_inst)
            /\ trace' = Append(trace, Event("create", NewInstance(n_inst), <<>>, TRUE))
            /\ pc' = "fit"
            /\ UNCHANGED error
       ELSE /\ Raise("KeyError")
            /\ UNCHANGED <<n_inst, model, trace>>
    /\ UNCHANGED <<auxVars, inputs, splitVars, k, foldLocals, accVars, returned>>

\* the exception of fit is caught and the fold goes on
AfterFit_Swallowed(ok) == "predict"

\* backtest.py:89: where control goes after model.fit returned (ok) or raised
AfterFit(ok) == IF ok THEN "predict" ELSE "raised"

\* backtest.py:89
Fit ==
    /\ pc = "fit"
    /\ \E ok \in BOOLEAN :
        /\ trace' = Append(trace, Event("fit", model, TrainRows(folds[k]), ok))
        /\ pc' = AfterFit(ok)
        /\ error' = IF AfterFit(ok) = "raised" THEN "fit" ELSE error
    /\ UNCHANGED <<auxVars, inputs, splitVars, k, n_inst, model, foldLocals, accVars,
                   returned>>

\* backtest.py:92
Predict ==
    /\ pc = "predict"
    /\ \E ok \in BOOLEAN :
        /\ trace' = Append(trace, Event("predict", model, TestRows(folds[k]), ok))
        /\ IF ok
           THEN /\ y_pred' = [j \in 1..Len(TestRows(folds[k])) |->
                                 <<model, TestRows(folds[k])[j]>>]
                /\ pc' = "proba"
                /\ UNCHANGED error
           ELSE /\ Raise("predict")
                /\ UNCHANGED y_pred
    /\ UNCHANGED <<auxVars, inputs, splitVars, k, n_inst, model, y_proba, metrics, fi,
                   accVars, returned>>

\* predict_proba is called without the try/except
AfterProba_Propagates(ok) == IF ok THEN "metrics" ELSE "raised"

\* backtest.py:93-96: where control goes after predict_proba returned or raised
AfterProba(ok) == "metrics"

\* backtest.py:93-96: the value bound to y_proba
ProbaValue(ok, m, rows) == IF ok THEN Some([inst |-> m, rows |-> rows]) ELSE None

\* backtest.py:93-96
PredictProba ==
    /\ pc = "proba"
    /\ \E ok \in BOOLEAN :
        /\ trace' = Append(trace, Event("predict_proba", model, TestRows(folds[k]), ok))
        /\ pc' = AfterProba(ok)
        /\ error' = IF AfterProba(ok) = "raised" THEN "predict_proba" ELSE error
        /\ y_proba' = ProbaValue(ok, model, TestRows(folds[k]))
    /\ UNCHANGED <<auxVars, inputs, splitVars, k, n_inst, model, y_pred, metrics, fi,
                   accVars, returned>>

\* metrics.py:19-62 compute_metrics(y_true, y_pred, metric_names): the value
\* is kept as the pair of sequences it is computed from
compute_metrics(yt, yp) == [y_true |-> yt, y_pred |-> yp]

\* backtest.py:99
Metrics ==
    /\ pc = "metrics"
    /\ metrics' = compute_metrics(TestRows(folds[k]), y_pred)
    /\ trace' = Append(trace, Event("metrics", model, TestRows(folds[k]), TRUE))
    /\ pc' = "fi"
    /\ UNCHANGED <<auxVars, inputs, splitVars, k, n_inst, model, y_pred, y_proba, fi,
                   accVars, returned, error>>

\* backtest.py:102 model.feature_importance(): the vector reported by instance m
feature_importance(m) == 2 ^ (m - 1)

\* backtest.py:103-106
AddImportance(acc, v) == IF acc = None THEN Some(v) ELSE Some(acc[1] + v)

\* backtest.py:102-106
FeatureImportance ==
    /\ pc = "fi"
    /\ \E ok \in BOOLEAN :
        /\ trace' = Append(trace, Event("feature_importance", model, <<>>, ok))
        /\ IF ok
           THEN /\ fi' = feature_importance(model)
                /\ importance_sum' =
                       AddImportance(importance_sum, feature_importance(model))
                /\ pc' = "append"
                /\ UNCHANGED error
           ELSE /\ Raise("feature_importance")
                /\ UNCHANGED <<fi, importance_sum>>
    /\ UNCHANGED <<auxVars, inputs, splitVars, k, n_inst, model, y_pred, y_proba, metrics,
                   all_y_true, all_y_pred, result, returned>>

\* backtest.py:108-117
MkFoldResult(f, m, yt, yp, ypr, imp) ==
    [fold_id |-> f.fold_id,
     train_size |-> f.train_end - f.train_start,
     test_size |-> f.test_end - f.test_start,
     metrics |-> m,
     y_true |-> yt,
     y_pred |-> yp,
     y_proba |-> ypr,
     feature_importance |-> imp]

\* the fold result is inserted at the front
AppendFold_Front(rs, r) == <<r>> \o rs

\* backtest.py:118
AppendFold(rs, r) == Append(rs, r)

\* backtest.py:108-124
AppendResult ==
    /\ pc = "append"
    /\ result' = [result EXCEPT !.folds =
                     AppendFold(@, MkFoldResult(folds[k], metrics,
                                                TestRows(folds[k]), y_pred,
                                                y_proba, fi))]
    /\ all_y_true' = Append(all_y_true, TestRows(folds[k]))
    /\ all_y_pred' = Append(all_y_pred, y_pred)
    /\ trace' = Append(trace, Event("append", model, <<>>, TRUE))
    /\ pc' = "for"
    /\ UNCHANGED <<auxVars, inputs, splitVars, k, n_inst, model, foldLocals,
                   importance_sum, returned, error>>

\* backtest.py:130
LastModel(m) == m

\* backtest.py:126-136
Aggregate ==
    /\ pc = "aggregate"
    /\ result' = [result EXCEPT
                     !.all_y_true = Some(Concat(all_y_true)),
                     !.all_y_pred = Some(Concat(all_y_pred)),
                     !.aggregate_metrics =
                         Some(compute_metrics(Concat(all_y_true), Concat(all_y_pred))),
                     !.last_model = LastModel(model)]
    /\ returned' = TRUE
    /\ pc' = "done"
    /\ UNCHANGED <<auxVars, inputs, splitVars, k, n_inst, model, foldLocals,
                   importance_sum, all_y_true, all_y_pred, error, trace>>

\* backtest.py:30-37, 75: BacktestResult()
EmptyResult ==
    [folds |-> <<>>, aggregate_metrics |-> None, all_y_true |-> None,
     all_y_pred |-> None, last_model |-> NoModel]

\* no registry call has been made from outside a run
NoCall == [op |-> "none", name |-> ""]

RegIdle ==
    /\ r_call = NoCall
    /\ r_value = None
    /\ r_error = NoError
    /\ instances = <<>>

\* _deep_merge has not been called
DmIdle ==
    /\ dm_pc = "idle"
    /\ heap = <<>>
    /\ base_value = None
    /\ override_value = None
    /\ dm_base = 0
    /\ dm_override = 0
    /\ dm_result = None

\* compute_metrics has not been called
MetIdle ==
    /\ m_pc = "idle"
    /\ m_y_true = <<>>
    /\ m_y_pred = <<>>
    /\ metric_names = None
    /\ m_todo = <<>>
    /\ results = <<>>
    /\ m_error = NoError

\* optimize_threshold has not been called
ThrIdle ==
    /\ o_pc = "idle"
    /\ o_y_true = <<>>
    /\ o_y_proba = <<>>
    /\ metric = "f1"
    /\ thresholds = None
    /\ min_precision = [num |-> 0, den |-> 1]
    /\ o_todo = <<>>
    /\ best_threshold = 0
    /\ best_score = [num |-> 0, den |-> 1]
    /\ o_error = NoError

\* run_ensemble_evaluation has not been called
EnsIdle ==
    /\ e_pc = "idle"
    /\ close = <<>>
    /\ regime_bull = <<>>
    /\ T_bull = 0
    /\ T_bear = 0
    /\ drop_bull = 0
    /\ drop_bear = 0
    /\ bull_label = <<>>
    /\ bear_label = <<>>
    /\ valid_idx = <<>>
    /\ regime = <<>>
    /\ y_bull = <<>>
    /\ y_bear = <<>>
    /\ bull_result = <<>>
    /\ bear_result = <<>>
    /\ e_folds = <<>>
    /\ e_all_y_true = <<>>
    /\ e_all_y_pred = <<>>
    /\ e_all_regime = <<>>
    /\ combined_metrics = None
    /\ e_error = NoError

Init ==
    /\ MetIdle
    /\ ThrIdle
    /\ EnsIdle
    /\ RegIdle
    /\ earlier = None
    /\ DmIdle
    /\ warnings = <<>>
    /\ MODEL_REGISTRY = ImportedRegistry
    /\ model_type \in {"lightgbm", "unregistered"}
    /\ n_samples \in NSamplesVals
    /\ init_train \in InitTrainVals
    /\ oos_window \in OosVals
    /\ step \in StepVals
    /\ pc = "wfs_check"
    /\ folds = <<>>
    /\ fold_id = 0
    /\ train_end = 0
    /\ k = 0
    /\ n_inst = 0
    /\ model = NoModel
    /\ y_pred = <<>>
    /\ y_proba = None
    /\ metrics = compute_metrics(<<>>, <<>>)
    /\ fi = 0
    /\ importance_sum = None
    /\ all_y_true = <<>>
    /\ all_y_pred = <<>>
    /\ result = EmptyResult
    /\ returned = FALSE
    /\ error = NoError
    /\ trace = <<>>

Next ==
    \/ SplitCheck
    \/ SplitLoop
    \/ SplitExit
    \/ ForNext
    \/ CreateModel
    \/ Fit
    \/ Predict
    \/ PredictProba
    \/ Metrics
    \/ FeatureImportance
    \/ AppendResult
    \/ Aggregate

Spec == Init /\ [][Next]_vars

\* run_walk_forward has not been called
RunAtRest ==
    /\ model_type = "lightgbm"
    /\ n_samples = 0
    /\ pc = "idle"
    /\ folds = <<>>
    /\ fold_id = 0
    /\ train_end = 0
    /\ k = 0
    /\ n_inst = 0
    /\ model = NoModel
    /\ y_pred = <<>>
    /\ y_proba = None
    /\ metrics = compute_metrics(<<>>, <<>>)
    /\ fi = 0
    /\ importance_sum = None
    /\ all_y_true = <<>>
    /\ all_y_pred = <<>>
    /\ result = EmptyResult
    /\ returned = FALSE
    /\ error = NoError
    /\ trace = <<>>

\* run_walk_forward has not been called and the model modules are imported
DriverAtRest ==
    /\ MODEL_REGISTRY = ImportedRegistry
    /\ RunAtRest

\* neither run_walk_forward nor run_ensemble_evaluation has been called
DriverIdle ==
    /\ DriverAtRest
    /\ init_train = 0
    /\ oos_window = 0
    /\ step = 0

(* ---------------------------------------------------------------------- *)
(* compute_metrics (src/evaluation/metrics.py)                            *)
(* ---------------------------------------------------------------------- *)
\* A metric value is the fraction num/den; den = 0 is not a number: 0/0 is
\* numpy's nan, and a non-zero numerator over 0 is an infinity.
Frac(n, d) == [num |-> n, den |-> d]

NaN == Frac(0, 0)

IsNumber(v) == v.den # 0

\* sklearn's zero_division=0: a ratio whose denominator is zero is 0
ZeroDivision0(n, d) == IF d = 0 THEN Frac(0, 1) ELSE Frac(n, d)

\* numpy's true division of counts: 0/0 is nan (a RuntimeWarning, no exception)
NpDivide(n, d) == Frac(n, d)

FAdd(a, b) == Frac(a.num * b.den + b.num * a.den, a.den * b.den)

RECURSIVE FSum(_, _)
FSum(S, f) ==
    IF S = {} THEN Frac(0, 1)
    ELSE LET c == CHOOSE x \in S : TRUE IN FAdd(f[c], FSum(S \ {c}, f))

\* the labels sklearn finds in the two sequences (unique_labels)
PresentLabels(yt, yp) == SeqRange(yt) \cup SeqRange(yp)

Agree(yt, yp) == Cardinality({i \in 1..Len(yt) : yt[i] = yp[i]})
TP(yt, yp, c) == Cardinality({i \in 1..Len(yt) : yt[i] = c /\ yp[i] = c})
FP(yt, yp, c) == Cardinality({i \in 1..Len(yt) : yt[i] # c /\ yp[i] = c})
FN(yt, yp, c) == Cardinality({i \in 1..Len(yt) : yt[i] = c /\ yp[i] # c})
Support(yt, c) == Cardinality({i \in 1..Len(yt) : yt[i] = c})
Predicted(yp, c) == Cardinality({i \in 1..Len(yp) : yp[i] = c})

\* per-class precision, recall and F1, each with zero_division=0
PrecisionOf(yt, yp, c) ==
    ZeroDivision0(TP(yt, yp, c), TP(yt, yp, c) + FP(yt, yp, c))
RecallOf(yt, yp, c) ==
    ZeroDivision0(TP(yt, yp, c), TP(yt, yp, c) + FN(yt, yp, c))
F1Of(yt, yp, c) ==
    ZeroDivision0(2 * TP(yt, yp, c),
                  2 * TP(yt, yp, c) + FP(yt, yp, c) + FN(yt, yp, c))

\* average="macro": the unweighted mean of the per-class values
MacroAverage(perClass) ==
    LET s == FSum(DOMAIN perClass, perClass)
    IN  Frac(s.num, s.den * Cardinality(DOMAIN perClass))

\* average="weighted": the mean of the per-class values weighted by support
WeightedAverage(yt, perClass) ==
    LET s == FSum(DOMAIN perClass,
                  [c \in DOMAIN perClass |->
                      Frac(Support(yt, c) * perClass[c].num, perClass[c].den)])
    IN  Frac(s.num, s.den * Len(yt))

\* average="binary" (pos_label=1) raises ValueError when the target is
\* multiclass, or when it is binary and 1 is not one of its two labels
BinaryRaises(yt, yp) ==
    LET L == PresentLabels(yt, yp)
    IN  \/ Cardinality(L) > 2
        \/ Cardinality(L) = 2 /\ 1 \notin L

\* cohen_kappa_score: 1 - sum(w * confusion) / sum(w * expected), with
\* expected = outer(sum0, sum1) / n and w zero on the diagonal, one elsewhere
cohen_kappa_score(yt, yp) ==
    LET n == Len(yt)
        L == PresentLabels(yt, yp)
        chance == FSum(L, [c \in L |-> Frac(Support(yt, c) * Predicted(yp, c), 1)]).num
        kk == NpDivide(n * (n - Agree(yt, yp)), n * n - chance)
    IN  IF kk.den = 0 THEN Frac(0 - kk.num, 0)
        ELSE Frac(kk.den - kk.num, kk.den)

\* metrics.py:40-50, the keys of all_metrics in the order of the dict
MetricNames ==
    <<"accuracy", "f1_macro", "f1_weighted", "f1_binary", "precision_macro",
      "precision_binary", "recall_macro", "recall_binary", "cohen_kappa">>

\* metrics.py:40-50, all_metrics[name](): does the call raise
MetricRaises(name, yt, yp) ==
    /\ name \in {"f1_binary", "precision_binary", "recall_binary"}
    /\ BinaryRaises(yt, yp)

\* metrics.py:40-50, all_metrics[name](): the value of a call that returns
all_metrics(name, yt, yp) ==
    CASE name = "accuracy" -> Frac(Agree(yt, yp), Len(yt))
      [] name = "f1_macro" -> MacroAverage([c \in PresentLabels(yt, yp) |-> F1Of(yt, yp, c)])
      [] name = "f1_weighted" -> WeightedAverage(yt, [c \in PresentLabels(yt, yp) |-> F1Of(yt, yp, c)])
      [] name = "f1_binary" -> F1Of(yt, yp, 1)
      [] name = "precision_macro" -> MacroAverage([c \in PresentLabels(yt, yp) |-> PrecisionOf(yt, yp, c)])
      [] name = "precision_binary" -> PrecisionOf(yt, yp, 1)
      [] name = "recall_macro" -> MacroAverage([c \in PresentLabels(yt, yp) |-> RecallOf(yt, yp, c)])
      [] name = "recall_binary" -> RecallOf(yt, yp, 1)
      [] name = "cohen_kappa" -> cohen_kappa_score(yt, yp)

\* metrics.py:57, a name with no guard in front of the lookup
KnownMetric_Unguarded(name) == TRUE

\* metrics.py:57: if name in all_metrics
KnownMetric(name) == name \in SeqRange(MetricNames)

\* metrics.py:40-55: build all_metrics, default the name list, results = {}
MetStart ==
    /\ m_pc = "start"
    /\ m_todo' = IF metric_names = None THEN MetricNames ELSE metric_names[1]
    /\ results' = <<>>
    /\ m_pc' = "loop"
    /\ UNCHANGED <<driverVars, regVars, dmVars, earlier, ensVars, thrVars, m_y_true, m_y_pred, metric_names, m_error, warnings>>

\* metrics.py:56-60: one iteration of the for loop
MetLoop ==
    /\ m_pc = "loop"
    /\ m_todo # <<>>
    /\ LET name == Head(m_todo) IN
        IF KnownMetric(name)
        THEN IF name \notin SeqRange(MetricNames)
             THEN /\ m_pc' = "raised"
                  /\ m_error' = "KeyError"
                  /\ UNCHANGED <<results, warnings>>
             ELSE IF MetricRaises(name, m_y_true, m_y_pred)
             THEN /\ m_pc' = "raised"
                  /\ m_error' = "ValueError"
                  /\ UNCHANGED <<results, warnings>>
             ELSE /\ results' =
                        (name :> all_metrics(name, m_y_true, m_y_pred)) @@ results
                  /\ UNCHANGED <<m_pc, m_error, warnings>>
        ELSE /\ warnings' = Append(warnings, name)
             /\ UNCHANGED <<m_pc, m_error, results>>
    /\ m_todo' = Tail(m_todo)
    /\ UNCHANGED <<driverVars, regVars, dmVars, earlier, ensVars, thrVars, m_y_true, m_y_pred, metric_names>>

\* metrics.py:62: return results
MetReturn ==
    /\ m_pc = "loop"
    /\ m_todo = <<>>
    /\ m_pc' = "returned"
    /\ UNCHANGED <<driverVars, regVars, dmVars, earlier, ensVars, thrVars, m_y_true, m_y_pred, metric_names, m_todo,
                   results, m_error, warnings>>

\* the labels of the repository's tasks: 0/1, and 0/1/2 for reversal labels
LabelVals == {0, 1, 2}

\* names a caller may request: supported ones and one that is not
RequestVals == {"accuracy", "precision_binary", "cohen_kappa", "sharpe"}

RECURSIVE SeqsUpTo(_, _)
SeqsUpTo(S, n) ==
    IF n = 0 THEN {<<>>}
    ELSE LET shorter == SeqsUpTo(S, n - 1)
         IN  shorter \cup {Append(q, x) : q \in shorter, x \in S}

\* a call compute_metrics(y_true, y_pred, metric_names) on equally long,
\* non-empty label sequences
MetInit ==
    /\ DriverIdle
    /\ ThrIdle
    /\ EnsIdle
    /\ RegIdle
    /\ earlier = None
    /\ DmIdle
    /\ warnings = <<>>
    /\ m_pc = "start"
    /\ m_y_true \in SeqsUpTo(LabelVals, MaxLabels) \ {<<>>}
    /\ m_y_pred \in {q \in SeqsUpTo(LabelVals, MaxLabels) : Len(q) = Len(m_y_true)}
    /\ metric_names \in {None} \cup {Some(q) : q \in SeqsUpTo(RequestVals, MaxNames)}
    /\ m_todo = <<>>
    /\ results = <<>>
    /\ m_error = NoError

MetNext ==
    \/ MetStart
    \/ MetLoop
    \/ MetReturn

MetSpec == MetInit /\ [][MetNext]_vars

(* ---------------------------------------------------------------------- *)
(* optimize_threshold (src/evaluation/threshold_optimizer.py)             *)
(* ---------------------------------------------------------------------- *)
\* Probabilities and thresholds are counted in thousandths: a probability is a
\* multiple of ten, so that one thousandth stands for a rounding error that
\* lifts a grid point above its nominal value.

\* threshold_optimizer.py:64, -np.inf
NegInf == Frac(0 - 1, 0)

\* a > b on floats: false when either side is nan
FGreater(a, b) ==
    CASE a = NaN \/ b = NaN -> FALSE
      [] a.den = 0 -> a.num > 0 /\ b # a
      [] b.den = 0 -> b.num < 0
      [] OTHER -> a.num * b.den > b.num * a.den

\* threshold_optimizer.py:60-61, np.arange(0.20, 0.80, 0.01): 61 elements (the
\* length is ceil(0.6000000000000001 / 0.01)), element i being
\* 0.20 + i * 0.010000000000000009, which exceeds its nominal value for i >= 1
DefaultGrid == [i \in 1..61 |-> IF i = 1 THEN 200 ELSE 200 + 10 * (i - 1) + 1]

\* threshold_optimizer.py:67 and 130, the comparison turned round
apply_threshold_Below(proba, t) ==
    [i \in 1..Len(proba) |-> IF proba[i] <= t THEN 1 ELSE 0]

\* threshold_optimizer.py:67 and 130: (y_proba >= t).astype(int)
apply_threshold(proba, t) == [i \in 1..Len(proba) |-> IF proba[i] >= t THEN 1 ELSE 0]

\* threshold_optimizer.py:70: an all-0 or all-1 prediction
OneClassOnly(pred) ==
    \/ SumSeq(pred) = 0
    \/ SumSeq(pred) = Len(pred)

\* threshold_optimizer.py:74-77: the precision floor rejects the candidate
BelowFloor(yt, pred, floor) ==
    /\ FGreater(floor, Frac(0, 1))
    /\ FGreater(floor, PrecisionOf(yt, pred, 1))

\* threshold_optimizer.py:83-90: Youden's J = sensitivity + specificity - 1
Youden(yt, pred) ==
    LET tp == TP(yt, pred, 1)
        tn == TP(yt, pred, 0)
        fp == FP(yt, pred, 1)
        fn == FN(yt, pred, 1)
        sens == IF tp + fn > 0 THEN Frac(tp, tp + fn) ELSE Frac(0, 1)
        spec == IF tn + fp > 0 THEN Frac(tn, tn + fp) ELSE Frac(0, 1)
    IN  FAdd(FAdd(sens, spec), Frac(0 - 1, 1))

ObjectiveNames == {"f1", "kappa", "youden", "precision_recall", "f1_macro"}

\* threshold_optimizer.py:79-96: the score of a candidate's prediction
Score(m, yt, pred) ==
    CASE m = "f1" -> F1Of(yt, pred, 1)
      [] m = "kappa" -> cohen_kappa_score(yt, pred)
      [] m = "youden" -> Youden(yt, pred)
      [] m = "precision_recall" -> F1Of(yt, pred, 1)
      [] m = "f1_macro" ->
            MacroAverage([c \in PresentLabels(yt, pred) |-> F1Of(yt, pred, c)])
\* threshold_optimizer.py:100, a candidate that only equals the best score
\* replaces it as well
Improves_OrEqual(score, best) == FGreater(score, best) \/ score = best

\* threshold_optimizer.py:100: if score > best_score
Improves(score, best) == FGreater(score, best)

(* ---------------------------------------------------------------------- *)
\* threshold_optimizer.py:57-64: default the grid, best_threshold = 0.5,
\* best_score = -inf
ThrStart ==
    /\ o_pc = "start"
    /\ o_todo' = IF thresholds = None THEN DefaultGrid ELSE thresholds[1]
    /\ best_threshold' = 500
    /\ best_score' = NegInf
    /\ o_pc' = "loop"
    /\ UNCHANGED <<driverVars, regVars, dmVars, earlier, ensVars, metVars, warnings, o_y_true, o_y_proba, metric,
                   thresholds, min_precision, o_error>>

\* threshold_optimizer.py:66-102: one iteration of the for loop
ThrLoop ==
    /\ o_pc = "loop"
    /\ o_todo # <<>>
    /\ LET t == Head(o_todo)
           pred == apply_threshold(o_y_proba, t)
       IN  IF OneClassOnly(pred) \/ BelowFloor(o_y_true, pred, min_precision)
           THEN UNCHANGED <<o_pc, o_error, best_threshold, best_score>>
           ELSE IF metric \notin ObjectiveNames
           THEN /\ o_pc' = "raised"
                /\ o_error' = "ValueError"
                /\ UNCHANGED <<best_threshold, best_score>>
           ELSE /\ IF Improves(Score(metric, o_y_true, pred), best_score)
                   THEN /\ best_score' = Score(metric, o_y_true, pred)
                        /\ best_threshold' = t
                   ELSE UNCHANGED <<best_threshold, best_score>>
                /\ UNCHANGED <<o_pc, o_error>>
    /\ o_todo' = Tail(o_todo)
    /\ UNCHANGED <<driverVars, regVars, dmVars, earlier, ensVars, metVars, warnings, o_y_true, o_y_proba, metric,
                   thresholds, min_precision>>

\* threshold_optimizer.py:104-107: return float(best_threshold), float(best_score)
ThrReturn ==
    /\ o_pc = "loop"
    /\ o_todo = <<>>
    /\ o_pc' = "returned"
    /\ UNCHANGED <<driverVars, regVars, dmVars, earlier, ensVars, metVars, warnings, o_y_true, o_y_proba, metric,
                   thresholds, min_precision, o_todo, best_threshold,
                   best_score, o_error>>

\* positive-class probabilities a classifier may give, in thousandths
ProbaVals == {0, 500, 1000}

\* candidate thresholds a caller may pass, in thousandths
CandidateVals == {300, 700}

\* a call optimize_threshold(y_true, y_proba, metric, thresholds,
\* min_precision) on equally long, non-empty 0/1 labels and probabilities
ThrInit ==
    /\ DriverIdle
    /\ MetIdle
    /\ EnsIdle
    /\ RegIdle
    /\ earlier = None
    /\ DmIdle
    /\ warnings = <<>>
    /\ o_pc = "start"
    /\ o_y_true \in SeqsUpTo({0, 1}, MaxPts) \ {<<>>}
    /\ o_y_proba \in {q \in SeqsUpTo(ProbaVals, MaxPts) : Len(q) = Len(o_y_true)}
    /\ metric \in ObjectiveNames \cup {"auc"}
    /\ thresholds \in {None} \cup {Some(q) : q \in SeqsUpTo(CandidateVals, MaxCand)}
    /\ min_precision \in {Frac(0, 1), Frac(6, 10)}
    /\ o_todo = <<>>
    /\ best_threshold = 0
    /\ best_score = Frac(0, 1)
    /\ o_error = NoError

ThrNext ==
    \/ ThrStart
    \/ ThrLoop
    \/ ThrReturn

ThrSpec == ThrInit /\ [][ThrNext]_vars

(* ---------------------------------------------------------------------- *)
(* generate_reversal_labels (src/labels/reversal.py)                      *)
(* ---------------------------------------------------------------------- *)
\* rows lists the index labels of the frame in order; position p counts from 0
\* and CloseAt(rows, p) is close.iloc[p]
CloseAt(rows, p) == close[rows[p + 1] + 1]

\* the positions rolling(T).max().shift(-T) looks at from position p: the next
\* T rows, and nan when the frame ends before them
FutureDefined(rows, p, T) == p + T <= Len(rows) - 1

\* reversal.py:44, 47
FutureMax(rows, p, T) ==
    CHOOSE v \in {CloseAt(rows, q) : q \in (p + 1)..(p + T)} :
        \A q \in (p + 1)..(p + T) : CloseAt(rows, q) <= v

\* reversal.py:45, 48
FutureMin(rows, p, T) ==
    CHOOSE v \in {CloseAt(rows, q) : q \in (p + 1)..(p + T)} :
        \A q \in (p + 1)..(p + T) : CloseAt(rows, q) >= v

\* reversal.py:52, future_min_return <= -X with X = X.num / X.den
Drops(rows, p, T, X) ==
    /\ FutureDefined(rows, p, T)
    /\ (FutureMin(rows, p, T) - CloseAt(rows, p)) * X.den
           <= (0 - X.num) * CloseAt(rows, p)

\* reversal.py:53, future_max_return >= X
Rises(rows, p, T, X) ==
    /\ FutureDefined(rows, p, T)
    /\ (FutureMax(rows, p, T) - CloseAt(rows, p)) * X.den
           >= X.num * CloseAt(rows, p)

\* reversal.py:51-53 and 62: 1 by default, 0 where the price drops, then 2
\* where it rises, then nan in the last T rows
LabelAt(rows, p, T, X) ==
    IF p >= Len(rows) - T THEN None
    ELSE IF Rises(rows, p, T, X) THEN Some(2)
    ELSE IF Drops(rows, p, T, X) THEN Some(0)
    ELSE Some(1)

\* reversal.py:41-73: the label series, index label -> label or nan
generate_reversal_labels(rows, T, X) ==
    [i \in SeqRange(rows) |->
        LabelAt(rows, (CHOOSE p \in 0..(Len(rows) - 1) : rows[p + 1] = i), T, X)]

\* reversal.py:56-59: the number of rows that trigger both labels
BothCount(rows, T, X) ==
    Cardinality({p \in 0..(Len(rows) - 1) :
                    Drops(rows, p, T, X) /\ Rises(rows, p, T, X)})

\* reversal.py:65-71: the statistics divide by the number of labelled rows,
\* which is zero when the frame has no more than T rows
LabelStatsRaise(rows, T) == Len(rows) <= T

(* ---------------------------------------------------------------------- *)
(* run_ensemble_evaluation (src/evaluation/ensemble.py)                   *)
(* ---------------------------------------------------------------------- *)
\* splitter.py:49-66 as one step: the folds the while loop appends to acc
RECURSIVE FoldsFrom(_, _, _, _, _, _)
FoldsFrom(acc, fid, te, n, oos, st) ==
    IF LoopCond(te, oos, n) /\ Len(acc) < MaxFolds
    THEN FoldsFrom(Append(acc, MkFold(fid, te, oos, n)), NextFoldId(fid),
                   NextTrainEnd(te, st), n, oos, st)
    ELSE acc

\* splitter.py:22-73 as one step: whether the call raises, and its fold list
walk_forward_split(n, it, oos, st) ==
    LET fs == IF InitTrainTooLarge(it, n) THEN <<>>
              ELSE FoldsFrom(<<>>, 0, it, n, oos, st)
    IN  [raises |-> InitTrainTooLarge(it, n) \/ NoFolds(fs), folds |-> fs]

\* backtest.py:81-120 as one step: the FoldResult list of a run in which no
\* model call raises; the prediction of the fold's model for row r of the
\* matrix is the token <<who, fold_id, r>>
run_walk_forward(who, y, it, oos, st) ==
    LET fs == walk_forward_split(Len(y), it, oos, st).folds
    IN  [j \in 1..Len(fs) |->
            LET rows == SliceRows(Len(y), fs[j].test_start, fs[j].test_end)
            IN  [fold_id |-> fs[j].fold_id,
                 test_size |-> fs[j].test_end - fs[j].test_start,
                 y_true |-> [q \in 1..Len(rows) |-> y[rows[q] + 1]],
                 y_pred |-> [q \in 1..Len(rows) |-> <<who, fs[j].fold_id, rows[q]>>]]]

\* the index labels build_features keeps: all but the leading d rows
\* (builder.py:51-52, ffill().dropna())
KeptRows(d) == [j \in 1..(Len(close) - d) |-> d + j - 1]

\* ensemble.py:78, the default label map of the bull model
BullMap == (0 :> 0) @@ (1 :> 0) @@ (2 :> 1)

\* ensemble.py:98, the default label map of the bear model
BearMap == (0 :> 1) @@ (1 :> 0) @@ (2 :> 0)

\* Series.map(label_map): nan stays nan
MapLabel(v, label_map) == IF v = None THEN None ELSE Some(label_map[v[1]])

\* Series.fillna(0)
FillNa0(v) == IF v = None THEN Some(0) ELSE v

\* ensemble.py:79 and 99: label.map(label_map).fillna(0).astype(int)
MappedLabels(raw, label_map) ==
    [i \in DOMAIN raw |-> FillNa0(MapLabel(raw[i], label_map))]

\* dropna(subset=["label"]).index
NonMissing(labels) == {i \in DOMAIN labels : labels[i] # None}

\* ensemble.py:102-104: the rows of a that are also in B, in the order of a
Intersection(a, B) == SelectSeq(a, LAMBDA i : i \in B)

\* the threshold X of the label strategy, the same for both models
LabelX == Frac(1, 2)

\* reversal.py:56-59: the warning generate_reversal_labels logs
BothWarning(rows, T) ==
    IF BothCount(rows, T, LabelX) > 0 THEN <<"both labels triggered">> ELSE <<>>

EnsRaise(e) ==
    /\ e_pc' = "raised"
    /\ e_error' = e

\* ensemble.py:57-121: features, labels, label maps, the common index and the
\* two label vectors
EnsPrepare ==
    /\ e_pc = "prepare"
    /\ IF LabelStatsRaise(KeptRows(drop_bull), T_bull)
       THEN /\ EnsRaise("ZeroDivisionError")
            /\ warnings' = warnings \o BothWarning(KeptRows(drop_bull), T_bull)
            /\ UNCHANGED <<bull_label, bear_label, valid_idx, regime, y_bull, y_bear>>
       ELSE IF LabelStatsRaise(KeptRows(drop_bear), T_bear)
       THEN /\ EnsRaise("ZeroDivisionError")
            /\ warnings' = warnings \o BothWarning(KeptRows(drop_bull), T_bull)
                                    \o BothWarning(KeptRows(drop_bear), T_bear)
            /\ bull_label' = generate_reversal_labels(KeptRows(drop_bull), T_bull, LabelX)
            /\ UNCHANGED <<bear_label, valid_idx, regime, y_bull, y_bear>>
       ELSE /\ warnings' = warnings \o BothWarning(KeptRows(drop_bull), T_bull)
                                    \o BothWarning(KeptRows(drop_bear), T_bear)
            /\ bull_label' = generate_reversal_labels(KeptRows(drop_bull), T_bull, LabelX)
            /\ bear_label' = generate_reversal_labels(KeptRows(drop_bear), T_bear, LabelX)
            /\ valid_idx' =
                  Intersection(
                      Intersection(KeptRows(drop_bull),
                                   NonMissing(MappedLabels(bull_label', BullMap))),
                      NonMissing(MappedLabels(bear_label', BearMap)))
            /\ regime' = [j \in 1..Len(valid_idx') |-> regime_bull[valid_idx'[j] + 1]]
            /\ y_bull' = [j \in 1..Len(valid_idx') |->
                             MappedLabels(bull_label', BullMap)[valid_idx'[j]][1]]
            /\ y_bear' = [j \in 1..Len(valid_idx') |->
                             MappedLabels(bear_label', BearMap)[valid_idx'[j]][1]]
            /\ e_pc' = "bull"
            /\ UNCHANGED e_error
    /\ UNCHANGED <<driverVars, regVars, dmVars, earlier, metVars, thrVars, close, regime_bull, T_bull,
                   T_bear, drop_bull, drop_bear, bull_result, bear_result,
                   e_folds, e_all_y_true, e_all_y_pred, e_all_regime,
                   combined_metrics>>

\* ensemble.py:130-136: bull_result = run_walk_forward(X_bull, y_bull, ...)
EnsRunBull ==
    /\ e_pc = "bull"
    /\ \E ok \in BOOLEAN :
          IF walk_forward_split(Len(y_bull), init_train, oos_window, step).raises
          THEN EnsRaise("ValueError") /\ UNCHANGED bull_result
          ELSE IF ~ok
          THEN EnsRaise("Exception") /\ UNCHANGED bull_result
          ELSE /\ bull_result' =
                     run_walk_forward("bull", y_bull, init_train, oos_window, step)
               /\ e_pc' = "bear"
               /\ UNCHANGED e_error
    /\ UNCHANGED <<driverVars, regVars, dmVars, earlier, metVars, thrVars, warnings, close, regime_bull,
                   T_bull, T_bear, drop_bull, drop_bear, bull_label, bear_label,
                   valid_idx, regime, y_bull, y_bear, bear_result, e_folds,
                   e_all_y_true, e_all_y_pred, e_all_regime, combined_metrics>>

\* the bear run is given a longer step than the bull run
BearStep_Longer(st) == st + 1

\* ensemble.py:145: step=step, the same value the bull run gets at line 134
BearStep(st) == st

\* ensemble.py:141-147: bear_result = run_walk_forward(X_bear, y_bear, ...)
EnsRunBear ==
    /\ e_pc = "bear"
    /\ \E ok \in BOOLEAN :
          IF walk_forward_split(Len(y_bear), init_train, oos_window,
                                BearStep(step)).raises
          THEN EnsRaise("ValueError") /\ UNCHANGED bear_result
          ELSE IF ~ok
          THEN EnsRaise("Exception") /\ UNCHANGED bear_result
          ELSE /\ bear_result' =
                     run_walk_forward("bear", y_bear, init_train, oos_window,
                                      BearStep(step))
               /\ e_pc' = "split"
               /\ UNCHANGED e_error
    /\ UNCHANGED <<driverVars, regVars, dmVars, earlier, metVars, thrVars, warnings, close, regime_bull,
                   T_bull, T_bear, drop_bull, drop_bear, bull_label, bear_label,
                   valid_idx, regime, y_bull, y_bear, bull_result, e_folds,
                   e_all_y_true, e_all_y_pred, e_all_regime, combined_metrics>>

\* ensemble.py:154-158: folds = walk_forward_split(len(X_bull), ...) and the
\* three empty lists
EnsSplit ==
    /\ e_pc = "split"
    /\ LET sp == walk_forward_split(Len(y_bull), init_train, oos_window, step)
       IN  IF sp.raises
           THEN EnsRaise("ValueError") /\ UNCHANGED e_folds
           ELSE /\ e_folds' = sp.folds
                /\ e_pc' = "merge"
                /\ UNCHANGED e_error
    /\ e_all_y_true' = <<>>
    /\ e_all_y_pred' = <<>>
    /\ e_all_regime' = <<>>
    /\ UNCHANGED <<driverVars, regVars, dmVars, earlier, metVars, thrVars, warnings, close, regime_bull,
                   T_bull, T_bear, drop_bull, drop_bear, bull_label, bear_label,
                   valid_idx, regime, y_bull, y_bear, bull_result, bear_result,
                   combined_metrics>>

\* ensemble.py:165, 167: the fold's predictions in a sub-result, None when the
\* sub-result has no fold of that id
FoldPred(res, fid) == IF fid < Len(res) THEN Some(res[fid + 1].y_pred) ELSE None

\* the two models' predictions are exchanged
Gate_Swapped(r, bull, bear) == IF r = 1 THEN bear ELSE bull

\* ensemble.py:175, one position of np.where(test_regime == 1, bull, bear)
Gate(r, bull, bear) == IF r = 1 THEN bull ELSE bear

\* ensemble.py:175: np.where(test_regime == 1, bull_pred, bear_pred)
NpWhere(test_regime, bull_pred, bear_pred) ==
    [j \in 1..Len(test_regime) |-> Gate(test_regime[j], bull_pred[j], bear_pred[j])]

\* the bear labels are taken as the ground truth
GroundTruth_Bear(bull_true, bear_true) == bear_true

\* ensemble.py:176: combined_true = y_bull[test_start:test_end]
GroundTruth(bull_true, bear_true) == bull_true

\* a[test_start:test_end]
SliceOf(a, f) ==
    LET rows == SliceRows(Len(a), f.test_start, f.test_end)
    IN  [q \in 1..Len(rows) |-> a[rows[q] + 1]]

\* ensemble.py:160-180: one iteration of the merge loop
EnsMergeFold ==
    /\ e_pc = "merge"
    /\ e_folds # <<>>
    /\ LET fold == Head(e_folds)
           bull_pred == FoldPred(bull_result, fold.fold_id)
           bear_pred == FoldPred(bear_result, fold.fold_id)
           test_regime == SliceOf(regime, fold)
       IN  IF bull_pred = None \/ bear_pred = None
           THEN UNCHANGED <<e_all_y_true, e_all_y_pred, e_all_regime>>
           ELSE /\ e_all_y_pred' =
                      Append(e_all_y_pred,
                             NpWhere(test_regime, bull_pred[1], bear_pred[1]))
                /\ e_all_y_true' =
                      Append(e_all_y_true,
                             GroundTruth(SliceOf(y_bull, fold), SliceOf(y_bear, fold)))
                /\ e_all_regime' = Append(e_all_regime, test_regime)
    /\ e_folds' = Tail(e_folds)
    /\ UNCHANGED <<driverVars, regVars, dmVars, earlier, metVars, thrVars, warnings, e_pc, close,
                   regime_bull, T_bull, T_bear, drop_bull, drop_bear, bull_label,
                   bear_label, valid_idx, regime, y_bull, y_bear, bull_result,
                   bear_result, combined_metrics, e_error>>

\* ensemble.py:182-201: concatenate, compute_metrics, return; np.concatenate
\* raises ValueError on an empty list
EnsFinish ==
    /\ e_pc = "merge"
    /\ e_folds = <<>>
    /\ IF e_all_y_true = <<>>
       THEN EnsRaise("ValueError") /\ UNCHANGED combined_metrics
       ELSE /\ combined_metrics' =
                  Some(compute_metrics(Concat(e_all_y_true), Concat(e_all_y_pred)))
            /\ e_pc' = "returned"
            /\ UNCHANGED e_error
    /\ UNCHANGED <<driverVars, regVars, dmVars, earlier, metVars, thrVars, warnings, close, regime_bull,
                   T_bull, T_bear, drop_bull, drop_bear, bull_label, bear_label,
                   valid_idx, regime, y_bull, y_bear, bull_result, bear_result,
                   e_folds, e_all_y_true, e_all_y_pred, e_all_regime>>

\* closing prices of the frame
PriceVals == {1, 2}

\* look-ahead windows T of the two label configurations
LookAheadVals == {1, 2}

\* test-window lengths and steps of the fold schedule
WindowVals == {1, 2}

\* numbers of leading rows build_features may drop
DropVals == {0, 1}

\* a call run_ensemble_evaluation(df, bull_config, bear_config, init_train,
\* oos_window, step) on a frame of MaxRows rows; the regime column of line 58
\* is drawn freely, and a step below 1 is left out because the sub-backtests
\* do not return then
EnsInit ==
    /\ DriverAtRest
    /\ MetIdle
    /\ ThrIdle
    /\ RegIdle
    /\ earlier = None
    /\ DmIdle
    /\ warnings = <<>>
    /\ init_train \in 1..MaxRows
    /\ oos_window \in WindowVals
    /\ step \in WindowVals
    /\ e_pc = "prepare"
    /\ close \in [1..MaxRows -> PriceVals]
    /\ regime_bull \in [1..MaxRows -> {0, 1}]
    /\ T_bull \in LookAheadVals
    /\ T_bear \in LookAheadVals
    /\ drop_bull \in DropVals
    /\ drop_bear \in DropVals
    /\ bull_label = <<>>
    /\ bear_label = <<>>
    /\ valid_idx = <<>>
    /\ regime = <<>>
    /\ y_bull = <<>>
    /\ y_bear = <<>>
    /\ bull_result = <<>>
    /\ bear_result = <<>>
    /\ e_folds = <<>>
    /\ e_all_y_true = <<>>
    /\ e_all_y_pred = <<>>
    /\ e_all_regime = <<>>
    /\ combined_metrics = None
    /\ e_error = NoError

EnsNext ==
    \/ EnsPrepare
    \/ EnsRunBull
    \/ EnsRunBear
    \/ EnsSplit
    \/ EnsMergeFold
    \/ EnsFinish

EnsSpec == EnsInit /\ [][EnsNext]_vars

\* The merge loop on sub-results of unequal length. run_walk_forward returns one
\* FoldResult per fold of the schedule, so this is the state after line 147
\* only if a sub-backtest loses folds; the guards of lines 165-170 are written
\* for that case. Each sub-result holds the first folds of the schedule, at
\* least one; the rows are labelled 0..MaxRows-1 and the frame is left out.
MergeInit ==
    /\ DriverAtRest
    /\ MetIdle
    /\ ThrIdle
    /\ RegIdle
    /\ earlier = None
    /\ DmIdle
    /\ warnings = <<>>
    /\ init_train \in 1..MaxRows
    /\ oos_window \in WindowVals
    /\ step \in WindowVals
    /\ ~walk_forward_split(MaxRows, init_train, oos_window, step).raises
    /\ e_pc = "split"
    /\ close = <<>>
    /\ regime_bull = <<>>
    /\ T_bull = 0
    /\ T_bear = 0
    /\ drop_bull = 0
    /\ drop_bear = 0
    /\ bull_label = <<>>
    /\ bear_label = <<>>
    /\ valid_idx = [j \in 1..MaxRows |-> j - 1]
    /\ regime \in [1..MaxRows -> {0, 1}]
    /\ y_bull \in [1..MaxRows -> {0, 1}]
    /\ y_bear = [j \in 1..MaxRows |-> 1 - y_bull[j]]
    /\ \E nb, nr \in 1..Len(walk_forward_split(MaxRows, init_train, oos_window,
                                               step).folds) :
          /\ bull_result =
                SubSeq(run_walk_forward("bull", y_bull, init_train, oos_window, step),
                       1, nb)
          /\ bear_result =
                SubSeq(run_walk_forward("bear", y_bear, init_train, oos_window, step),
                       1, nr)
    /\ e_folds = <<>>
    /\ e_all_y_true = <<>>
    /\ e_all_y_pred = <<>>
    /\ e_all_regime = <<>>
    /\ combined_metrics = None
    /\ e_error = NoError

MergeNext ==
    \/ EnsSplit
    \/ EnsMergeFold
    \/ EnsFinish

MergeSpec == MergeInit /\ [][MergeNext]_vars

(* ---------------------------------------------------------------------- *)
(* The model registry (src/models/registry.py)                            *)
(* ---------------------------------------------------------------------- *)
\* the state of run_walk_forward other than the registry
runVars == <<model_type, n_samples, init_train, oos_window, step, pc, folds,
             fold_id, train_end, k, n_inst, model, y_pred, y_proba, metrics, fi,
             importance_sum, all_y_true, all_y_pred, result, returned, error,
             trace>>

\* base.py:18-36: the abstract methods of BaseModel
AbstractMethods == {"fit", "predict", "predict_proba", "feature_importance"}

\* the model classes of the repository, each a subclass of BaseModel defining
\* the four methods: lgbm.py:30-121, lgbm_regressor.py:23-101,
\* stacking.py:106-287
ClassDefs ==
    [c \in {"LightGBMModel", "LightGBMRegressor", "StackingModel"} |->
        [base |-> "BaseModel", methods |-> AbstractMethods]]

\* registry.py:10: _MODEL_REGISTRY = {}
EmptyRegistry == [n \in {} |-> ""]

\* registry.py:16: _MODEL_REGISTRY[name] = cls
SetItem(reg, name, cls) ==
    [n \in DOMAIN reg \cup {name} |-> IF n = name THEN cls ELSE reg[n]]

\* registry.py:22-27, a missing name giving None as dict.get does
get_model_class_Lenient(reg, name) ==
    IF name \notin DOMAIN reg
    THEN [error |-> NoError, value |-> None]
    ELSE [error |-> NoError, value |-> Some(reg[name])]

\* registry.py:22-27: the class registered under the name, or KeyError
get_model_class(reg, name) ==
    IF name \notin DOMAIN reg
    THEN [error |-> "KeyError", value |-> None]
    ELSE [error |-> NoError, value |-> Some(reg[name])]

\* registry.py:33 cls(params=params): the constructors of the model classes end
\* in BaseModel.__init__ (base.py:13-16), which leaves is_fitted False
Construct(cls) == [cls |-> cls, is_fitted |-> FALSE]

\* isinstance(obj, BaseModel), with every abstract method defined
IsBaseModel(obj) ==
    /\ obj.cls \in DOMAIN ClassDefs
    /\ ClassDefs[obj.cls].base = "BaseModel"
    /\ AbstractMethods \subseteq ClassDefs[obj.cls].methods

\* names under which a class is registered, and names looked up
RegNameVals == {"lightgbm", "stacking"}
LookupVals == RegNameVals \cup {"nonexistent"}
ClassVals == {"LightGBMModel", "StackingModel"}

RegFrame == UNCHANGED <<runVars, metVars, thrVars, ensVars, dmVars, earlier, warnings>>

\* registry.py:13-19: register_model(name)(cls)
RegRegister ==
    \E name \in RegNameVals, cls \in ClassVals :
        /\ MODEL_REGISTRY' = SetItem(MODEL_REGISTRY, name, cls)
        /\ r_call' = [op |-> "register_model", name |-> name]
        /\ r_value' = Some(cls)
        /\ r_error' = NoError
        /\ UNCHANGED instances
        /\ RegFrame

\* registry.py:22-27: get_model_class(name)
RegGetModelClass ==
    \E name \in LookupVals :
        /\ r_call' = [op |-> "get_model_class", name |-> name]
        /\ r_value' = get_model_class(MODEL_REGISTRY, name).value
        /\ r_error' = get_model_class(MODEL_REGISTRY, name).error
        /\ UNCHANGED <<MODEL_REGISTRY, instances>>
        /\ RegFrame

\* registry.py:30-33: create_model(name, params); the object constructed is
\* named by its position in instances
RegCreateModel ==
    \E name \in LookupVals :
        /\ r_call' = [op |-> "create_model", name |-> name]
        /\ LET got == get_model_class(MODEL_REGISTRY, name)
           IN  IF got.error # NoError
               THEN /\ r_error' = got.error
                    /\ r_value' = None
                    /\ UNCHANGED instances
               ELSE IF got.value = None
               THEN /\ r_error' = "TypeError"
                    /\ r_value' = None
                    /\ UNCHANGED instances
               ELSE /\ Len(instances) < MaxInst
                    /\ instances' = Append(instances, Construct(got.value[1]))
                    /\ r_value' = Some(Len(instances) + 1)
                    /\ r_error' = NoError
        /\ UNCHANGED MODEL_REGISTRY
        /\ RegFrame

\* registry.py:36-38: list_models(), the registered names
RegListModels ==
    /\ r_call' = [op |-> "list_models", name |-> ""]
    /\ r_value' = Some(DOMAIN MODEL_REGISTRY)
    /\ r_error' = NoError
    /\ UNCHANGED <<MODEL_REGISTRY, instances>>
    /\ RegFrame

\* the registry module has just been imported and no model module yet
RegInit ==
    /\ MODEL_REGISTRY = EmptyRegistry
    /\ RunAtRest
    /\ init_train = 0
    /\ oos_window = 0
    /\ step = 0
    /\ MetIdle
    /\ ThrIdle
    /\ EnsIdle
    /\ RegIdle
    /\ earlier = None
    /\ DmIdle
    /\ warnings = <<>>

RegNext ==
    \/ RegRegister
    \/ RegGetModelClass
    \/ RegCreateModel
    \/ RegListModels

RegSpec == RegInit /\ [][RegNext]_vars

(* ---------------------------------------------------------------------- *)
(* Two calls of walk_forward_split with the same arguments                *)
(* ---------------------------------------------------------------------- *)
\* what a finished call did: whether it raised, and the list it returned
Outcome == [raises |-> pc = "raised", folds |-> IF pc = "raised" THEN <<>> ELSE folds]

\* splitter.py:22-27: the second call, made when the first is over, with the
\* arguments of the first; the model's folds, fold_id and train_end still hold
\* what the first call left in them
CallAgain ==
    /\ pc \in {"for", "raised"}
    /\ earlier = None
    /\ earlier' = Some(Outcome)
    /\ pc' = "wfs_check"
    /\ error' = NoError
    /\ UNCHANGED <<metVars, thrVars, ensVars, regVars, dmVars, warnings, inputs, splitVars, k,
                   n_inst, model, foldLocals, accVars, returned, trace>>

TwiceNext ==
    \/ SplitCheck
    \/ SplitLoop
    \/ SplitExit
    \/ CallAgain

TwiceSpec == Init /\ [][TwiceNext]_vars

(* ---------------------------------------------------------------------- *)
(* _deep_merge (src/experiment/config.py)                                 *)
(* ---------------------------------------------------------------------- *)
\* A dict object lives in the heap at an address (its position); the values it
\* holds are integers or references to dict objects.  The value of a reference
\* is the nested dict read through the heap.
IntV(v) == [kind |-> "int", v |-> v]
DictAt(a) == [kind |-> "dict", at |-> a]
DictV(items) == [kind |-> "dict", items |-> items]

IsDict(x) == x.kind = "dict"

RECURSIVE View(_, _)
\* the value (==) of what x refers to
View(h, x) ==
    IF IsDict(x)
    THEN DictV([key \in DOMAIN h[x.at] |-> View(h, h[x.at][key])])
    ELSE x

RECURSIVE Reach(_, _)
\* the addresses of the dict objects reachable from x
Reach(h, x) ==
    IF IsDict(x)
    THEN {x.at} \cup UNION {Reach(h, h[x.at][key]) : key \in DOMAIN h[x.at]}
    ELSE {}

RECURSIVE deepcopy(_, _)
RECURSIVE CopyItems(_, _, _, _)
RECURSIVE deep_merge(_, _, _)
RECURSIVE MergeItems(_, _, _, _)

\* copy.deepcopy filling the new dict at address a from the dict at src
CopyItems(h, a, src, ks) ==
    IF ks = {} THEN h
    ELSE LET key == CHOOSE x \in ks : TRUE
             cp == deepcopy(h, h[src][key])
         IN  CopyItems([cp.heap EXCEPT ![a] = SetItem(@, key, cp.val)],
                       a, src, ks \ {key})

\* config.py:18 and 23, copy.copy in place of copy.deepcopy: a new dict that
\* holds the items of the old one
deepcopy_Shallow(h, x) ==
    IF IsDict(x)
    THEN [heap |-> Append(h, h[x.at]), val |-> DictAt(Len(h) + 1)]
    ELSE [heap |-> h, val |-> x]

\* config.py:18 and 23, copy.deepcopy: a new dict object for every dict reached
\* (the dicts explored hold no object twice, so the memo plays no part)
deepcopy(h, x) ==
    IF IsDict(x)
    THEN [heap |-> CopyItems(Append(h, EmptyRegistry), Len(h) + 1, x.at,
                             DOMAIN h[x.at]),
          val |-> DictAt(Len(h) + 1)]
    ELSE [heap |-> h, val |-> x]

\* config.py:19-23: the for loop over override.items(), result at address r
MergeItems(h, r, o, ks) ==
    IF ks = {} THEN h
    ELSE LET key == CHOOSE x \in ks : TRUE
             value == h[o][key]
             new == IF key \in DOMAIN h[r] /\ IsDict(h[r][key]) /\ IsDict(value)
                    THEN deep_merge(h, h[r][key].at, value.at)
                    ELSE deepcopy(h, value)
         IN  MergeItems([new.heap EXCEPT ![r] = SetItem(@, key, new.val)],
                        r, o, ks \ {key})

\* config.py:16-24: _deep_merge(base, override) on the dicts at addresses b, o
deep_merge(h, b, o) ==
    LET copied == deepcopy(h, DictAt(b))
    IN  [heap |-> MergeItems(copied.heap, copied.val.at, o, DOMAIN h[o]),
         val |-> copied.val]

RECURSIVE StoreItems(_, _, _, _)
RECURSIVE Store(_, _)
StoreItems(h, a, items, ks) ==
    IF ks = {} THEN h
    ELSE LET key == CHOOSE x \in ks : TRUE
             st == Store(h, items[key])
         IN  StoreItems([st.heap EXCEPT ![a] = SetItem(@, key, st.val)],
                        a, items, ks \ {key})

\* the caller builds the nested dict v out of new dict objects
Store(h, v) ==
    IF IsDict(v)
    THEN [heap |-> StoreItems(Append(h, EmptyRegistry), Len(h) + 1, v.items,
                              DOMAIN v.items),
          val |-> DictAt(Len(h) + 1)]
    ELSE [heap |-> h, val |-> v]

\* config.py:16-24, the whole call
DmCall ==
    /\ dm_pc = "start"
    /\ heap' = deep_merge(heap, dm_base, dm_override).heap
    /\ dm_result' = Some(deep_merge(heap, dm_base, dm_override).val)
    /\ dm_pc' = "returned"
    /\ UNCHANGED <<driverVars, metVars, thrVars, ensVars, regVars, earlier, warnings,
                   base_value, override_value, dm_base, dm_override>>

\* the configuration dicts explored: keys a and b, integer values 1 and 2, and
\* dicts nested one level
PartialFns(K, V) == UNION {[D -> V] : D \in SUBSET K}
ConfigKeys == {"a", "b"}
ConfigInts == {IntV(1), IntV(2)}
FlatDicts == {DictV(f) : f \in PartialFns(ConfigKeys, ConfigInts)}
NestedDicts == {DictV(f) : f \in PartialFns(ConfigKeys, ConfigInts \cup FlatDicts)}

\* a call _deep_merge(base, override) on two dicts that share no object
DmInit ==
    /\ DriverIdle
    /\ MetIdle
    /\ ThrIdle
    /\ EnsIdle
    /\ RegIdle
    /\ earlier = None
    /\ warnings = <<>>
    /\ dm_pc = "start"
    /\ base_value \in NestedDicts
    /\ override_value \in NestedDicts
    /\ dm_base = 1
    /\ dm_override = Len(Store(<<>>, base_value).heap) + 1
    /\ heap = Store(Store(<<>>, base_value).heap, override_value).heap
    /\ dm_result = None

DmNext == DmCall

DmSpec == DmInit /\ [][DmNext]_vars

(* ---------------------------------------------------------------------- *)
(* generate_reversal_labels called on its own (src/labels/reversal.py)    *)
(* ---------------------------------------------------------------------- *)
\* reversal.py:20-73: generate_reversal_labels(df, T, X) on the frame whose
\* close column is close, with T = T_bull and X = LabelX; the series returned
\* is kept in bull_label
LblCall ==
    /\ e_pc = "label"
    /\ warnings' = warnings \o BothWarning(KeptRows(0), T_bull)
    /\ IF LabelStatsRaise(KeptRows(0), T_bull)
       THEN /\ EnsRaise("ZeroDivisionError")
            /\ UNCHANGED bull_label
       ELSE /\ bull_label' = generate_reversal_labels(KeptRows(0), T_bull, LabelX)
            /\ e_pc' = "labelled"
            /\ UNCHANGED e_error
    /\ UNCHANGED <<driverVars, regVars, dmVars, earlier, metVars, thrVars, close,
                   regime_bull, T_bear, T_bull, drop_bull, drop_bear, bear_label,
                   valid_idx, regime, y_bull, y_bear, bull_result, bear_result,
                   e_folds, e_all_y_true, e_all_y_pred, e_all_regime,
                   combined_metrics>>

\* closing prices that let a price fall by half and rise by half within one
\* look-ahead window
LblPriceVals == {1, 2, 3}

\* a call generate_reversal_labels(df, T, X) on a frame of 1 to MaxRows rows
LblInit ==
    /\ DriverIdle
    /\ MetIdle
    /\ ThrIdle
    /\ RegIdle
    /\ earlier = None
    /\ DmIdle
    /\ warnings = <<>>
    /\ e_pc = "label"
    /\ close \in UNION {[1..n -> LblPriceVals] : n \in 1..MaxRows}
    /\ T_bull \in LookAheadVals
    /\ regime_bull = <<>>
    /\ T_bear = 0
    /\ drop_bull = 0
    /\ drop_bear = 0
    /\ bull_label = <<>>
    /\ bear_label = <<>>
    /\ valid_idx = <<>>
    /\ regime = <<>>
    /\ y_bull = <<>>
    /\ y_bear = <<>>
    /\ bull_result = <<>>
    /\ bear_result = <<>>
    /\ e_folds = <<>>
    /\ e_all_y_true = <<>>
    /\ e_all_y_pred = <<>>
    /\ e_all_regime = <<>>
    /\ combined_metrics = None
    /\ e_error = NoError

LblNext == LblCall

LblSpec == LblInit /\ [][LblNext]_vars

(* ---------------------------------------------------------------------- *)
(* Properties                                                             *)
(* ---------------------------------------------------------------------- *)
\* walk_forward_split has returned its fold list to run_walk_forward
SplitReturned ==
    /\ pc \notin {"wfs_check", "wfs_loop"}
    /\ ~(pc = "raised" /\ error = "ValueError")

\* positions of the trace holding a call of the given operation
At(op) == {p \in 1..Len(trace) : trace[p].op = op}

\* the while loop stops at the cap only when its condition can never turn false
CapReachedOnlyByDivergingLoop ==
    (pc = "wfs_loop" /\ Len(folds) = MaxFolds
        /\ LoopCond(train_end, oos_window, n_samples)) => step <= 0

\* C1: no leakage.  Every fold has train range [0, train_end) and a test range
\* starting at train_end; every row of a fold's training slice lies strictly
\* before every row of its test slice; and each fit call receives exactly the
\* rows before the fold's test start (a row is named by its position, and a
\* slice bound by the position it denotes in the array).
NoLeakage ==
    /\ \A i \in 1..Len(folds) :
          /\ folds[i].train_start = 0
          /\ folds[i].test_start = folds[i].train_end
          /\ \A a \in SeqRange(TrainRows(folds[i])) :
                \A b \in SeqRange(TestRows(folds[i])) : a < b
    /\ \A p \in At("fit") :
          LET f == folds[trace[p].fold]
          IN  /\ SeqRange(trace[p].rows) =
                    {r \in 0..(n_samples - 1) : r < PyIndex(n_samples, f.train_end)}
              /\ \A r \in SeqRange(trace[p].rows) :
                    r < PyIndex(n_samples, f.test_start)

\* a model of a later fold has been fit on several rows ahead of a non-empty test window
NoLeakageWitness ==
    \E p \in At("fit") :
        /\ trace[p].fold >= 2
        /\ Len(trace[p].rows) >= 2
        /\ Len(TestRows(folds[trace[p].fold])) >= 1

\* C2: fold ordering.  In a returned fold list the fold_id values are 0, 1, 2,
\* ... in list order, every fold has test_start = train_end, and train_end
\* strictly increases from each fold to the next.
FoldOrdering ==
    SplitReturned =>
        \A i \in 1..Len(folds) :
            /\ folds[i].fold_id = i - 1
            /\ folds[i].test_start = folds[i].train_end
            /\ i < Len(folds) => folds[i].train_end < folds[i + 1].train_end

FoldOrderingWitness == SplitReturned /\ Len(folds) >= 3

\* C3: in every returned fold list each test window is non-empty and ends
\* within the data: test_start < test_end <= n_samples.
TestWindowNonEmptyInBounds ==
    SplitReturned =>
        \A i \in 1..Len(folds) :
            /\ folds[i].test_start < folds[i].test_end
            /\ folds[i].test_end <= n_samples

\* C4: walk_forward_split raises, returning no list, whenever init_train >=
\* n_samples and whenever no fold fits (init_train + oos_window > n_samples);
\* a returned list is never empty.
SplitFailsWhenNoFold ==
    /\ SplitReturned => Len(folds) >= 1
    /\ init_train >= n_samples =>
          \/ pc = "wfs_check"
          \/ pc = "raised" /\ error = "ValueError" /\ folds = <<>>
    /\ init_train + oos_window > n_samples =>
          \/ pc \in {"wfs_check", "wfs_loop"} /\ folds = <<>>
          \/ pc = "raised" /\ error = "ValueError" /\ folds = <<>>

\* the call was rejected after the loop, because no fold fits
SplitFailsWhenNoFoldWitness ==
    /\ pc = "raised"
    /\ error = "ValueError"
    /\ init_train >= 0
    /\ init_train < n_samples
    /\ oos_window >= 1
    /\ step >= 1

\* C5: a test window size of 0 or a step of 0 is rejected: no fold is ever
\* produced and no fold of a backtest is started; the call ends in the
\* configuration error.
ZeroLengthWindowsRejected ==
    (oos_window = 0 \/ step = 0) =>
        /\ folds = <<>>
        /\ pc \in {"wfs_check", "wfs_loop", "raised"}
        /\ pc = "raised" => error = "ValueError"

\* what is left before the while loop exits: the loop runs as long as this is
\* not negative, and nothing but train_end changes it
LoopDistance(te) == n_samples - oos_window - te

\* C6: every call of walk_forward_split terminates: each iteration of the
\* while loop brings train_end strictly closer to the point where the loop
\* exits (the loop condition depends on train_end alone, so an iteration that
\* does not is followed by another one, without end).
LoopAdvances ==
    [][SplitLoop => LoopDistance(train_end') < LoopDistance(train_end)]_vars

\* C7: classifier lifecycle.  Every fold gets an instance that did not exist
\* before; an instance is only ever called in the fold that created it; it is
\* fit at most once, on that fold's training rows, and exactly once in every
\* completed fold; predict and predict_proba come after its successful fit and
\* only on that fold's test rows; the result retains no instance until the
\* run is done, and then the last fold's instance as last_model.
ClassifierLifecycle ==
    /\ \A p, q \in At("create") :
          p # q => /\ trace[p].inst # trace[q].inst
                   /\ trace[p].fold # trace[q].fold
    /\ \A p \in At("fit") \cup At("predict") \cup At("predict_proba")
                 \cup At("feature_importance") :
          \E c \in At("create") :
              /\ c < p
              /\ trace[c].inst = trace[p].inst
              /\ trace[c].fold = trace[p].fold
    /\ \A p, q \in At("fit") : trace[p].inst = trace[q].inst => p = q
    /\ \A p \in At("fit") : trace[p].rows = TrainRows(folds[trace[p].fold])
    /\ \A p \in At("predict") \cup At("predict_proba") :
          /\ trace[p].rows = TestRows(folds[trace[p].fold])
          /\ \E q \in At("fit") :
                q < p /\ trace[q].inst = trace[p].inst /\ trace[q].ok
    /\ \A i \in 1..Len(result.folds) :
          Cardinality({p \in At("fit") : trace[p].fold = i}) = 1
    /\ pc # "done" => result.last_model = NoModel
    /\ pc = "done" =>
          \E c \in At("create") :
              /\ trace[c].fold = Len(folds)
              /\ result.last_model = trace[c].inst

\* a run over several folds has completed and retained its last instance
ClassifierLifecycleWitness ==
    /\ pc = "done"
    /\ Len(result.folds) >= 3
    /\ result.last_model # NoModel

\* the steps of one fold, in the order of the loop body
FoldSteps ==
    <<"create", "fit", "predict", "predict_proba", "metrics",
      "feature_importance", "append">>

\* the operations recorded for the fold at position j, in order
StepsOfFold(j) ==
    LET es == SelectSeq(trace, LAMBDA e : e.fold = j)
    IN  [i \in 1..Len(es) |-> es[i].op]

\* C8: folds run strictly one after another in increasing fold_id order: when
\* the model of a fold is created, every step of the fold before it (create,
\* fit, predict, predict_proba, metrics, feature_importance, append) has
\* completed, nothing of an earlier fold happens later, and result.folds[k]
\* has fold_id k.
SequentialFolds ==
    /\ \A p, q \in 1..Len(trace) : p < q => trace[p].fold <= trace[q].fold
    /\ \A p \in At("create") :
          trace[p].fold > 1 => StepsOfFold(trace[p].fold - 1) = FoldSteps
    /\ \A i \in 1..Len(result.folds) : result.folds[i].fold_id = i - 1
    /\ pc = "done" => Len(result.folds) = Len(folds)

SequentialFoldsWitness ==
    /\ pc = "done"
    /\ Len(result.folds) >= 3
    /\ Cardinality(At("create")) >= 3

\* C9: a fit that raises ends the run at once: it is the last thing that
\* happens, the exception leaves run_walk_forward, no model of a later fold
\* is created, and no result is returned.
FitErrorAborts ==
    \A p \in At("fit") :
        ~trace[p].ok =>
            /\ p = Len(trace)
            /\ pc = "raised"
            /\ error = "fit"
            /\ ~returned
            /\ n_inst = trace[p].fold
            /\ Len(result.folds) = trace[p].fold - 1

\* fit raised in a fold that is neither the first nor the last
FitErrorAbortsWitness ==
    /\ pc = "raised"
    /\ error = "fit"
    /\ k >= 2
    /\ k < Len(folds)

\* the labels a fold's instance predicted for the fold's test rows
PredictionsOf(inst, rows) == [j \in 1..Len(rows) |-> <<inst, rows[j]>>]

\* C10: a predict_proba that raises is swallowed: the fold goes on to its
\* metrics with y_proba = None, its FoldResult carries None together with the
\* fold's y_pred and metrics, and the run does not end with that exception;
\* a predict that raises ends the run with that exception.
ProbaErrorSwallowed ==
    /\ \A p \in At("predict_proba") :
          ~trace[p].ok =>
              /\ error # "predict_proba"
              /\ p = Len(trace) =>
                    /\ pc = "metrics"
                    /\ y_proba = None
                    /\ y_pred = PredictionsOf(trace[p].inst, trace[p].rows)
              /\ p < Len(trace) =>
                    /\ trace[p + 1].op = "metrics"
                    /\ trace[p + 1].fold = trace[p].fold
              /\ Len(result.folds) >= trace[p].fold =>
                    LET r == result.folds[trace[p].fold]
                    IN  /\ r.y_proba = None
                        /\ r.y_pred = PredictionsOf(trace[p].inst, trace[p].rows)
                        /\ r.metrics = compute_metrics(trace[p].rows, r.y_pred)
    /\ \A p \in At("predict") :
          ~trace[p].ok =>
              /\ p = Len(trace)
              /\ pc = "raised"
              /\ error = "predict"
              /\ ~returned

\* predict_proba raised in an early fold and the run still completed all folds
ProbaErrorSwallowedWitness ==
    /\ pc = "done"
    /\ Len(result.folds) >= 2
    /\ result.folds[1].y_proba = None
    /\ result.folds[2].y_proba # None

\* C11: after a completed run all_y_true is the concatenation, in fold order,
\* of the folds' y_true and all_y_pred that of the folds' y_pred; the test_size
\* values of result.folds add up to len(all_y_true); and aggregate_metrics is
\* computed from the pooled sequences.
AggregationConsistency ==
    pc = "done" =>
        LET fs == result.folds
            pooled_true == Concat([i \in 1..Len(fs) |-> fs[i].y_true])
            pooled_pred == Concat([i \in 1..Len(fs) |-> fs[i].y_pred])
        IN  /\ result.all_y_true = Some(pooled_true)
            /\ result.all_y_pred = Some(pooled_pred)
            /\ SumSeq([i \in 1..Len(fs) |-> fs[i].test_size]) = Len(pooled_true)
            /\ result.aggregate_metrics =
                  Some(compute_metrics(pooled_true, pooled_pred))

\* the importance vectors a caller can read from a BacktestResult: the
\* feature_importance of each FoldResult (backtest.py:27, 30-37)
ResultImportances(res) ==
    {Some(res.folds[i].feature_importance) : i \in 1..Len(res.folds)}

\* C12: importance_sum is the element-wise sum of the folds' importances, and
\* the returned result exposes that sum to the caller.
ImportanceSumExposed ==
    pc = "done" =>
        /\ importance_sum =
              Some(SumSeq([i \in 1..Len(result.folds) |->
                              result.folds[i].feature_importance]))
        /\ importance_sum \in ResultImportances(result)


\* the names this call of compute_metrics was asked for (metrics.py:52-53)
Requested == IF metric_names = None THEN MetricNames ELSE metric_names[1]

\* the requested names the for loop has visited so far
Visited == SubSeq(Requested, 1, Len(Requested) - Len(m_todo))

IsUnknownMetric(name) == name \notin SeqRange(MetricNames)

\* C18: compute_metrics never raises because of an unrecognised name: each
\* unknown requested name is skipped with one warning, and the returned map has
\* exactly the requested names that are supported as keys, all nine when
\* metric_names is None.
UnknownNamesSkipped ==
    m_pc \in {"loop", "returned", "raised"} =>
        /\ m_error # "KeyError"
        /\ m_pc = "raised" => ~IsUnknownMetric(Visited[Len(Visited)])
        /\ warnings = SelectSeq(Visited, IsUnknownMetric)
        /\ m_pc = "returned" =>
              /\ DOMAIN results = {n \in SeqRange(Requested) : ~IsUnknownMetric(n)}
              /\ metric_names = None => DOMAIN results = SeqRange(MetricNames)

UnknownNamesSkippedWitness ==
    /\ m_pc = "returned"
    /\ metric_names # None
    /\ warnings = <<"sharpe">>
    /\ DOMAIN results = {"accuracy"}

\* compute_metrics has returned all nine metrics for a call with no name list
AllNineReturned ==
    /\ m_pc = "returned"
    /\ metric_names = None
    /\ Cardinality(DOMAIN results) = 9

\* C19: for every pair of label sequences each value compute_metrics returns is
\* a defined number, 0 where the metric's denominator is zero, no division
\* error leaves the function, and precision_binary and recall_binary are 0 when
\* y_pred never predicts the positive class.
MetricsAlwaysDefined ==
    /\ m_error \notin {"ZeroDivisionError", "FloatingPointError"}
    /\ \A name \in DOMAIN results : IsNumber(results[name])
    /\ \A name \in DOMAIN results \cap {"precision_binary", "recall_binary"} :
          Predicted(m_y_pred, 1) = 0 => results[name] = Frac(0, 1)

\* the precision, on the arguments of the call, of the prediction made with the
\* returned threshold
ReturnedPrecision ==
    PrecisionOf(o_y_true, apply_threshold(o_y_proba, best_threshold), 1)

\* C20: with min_precision > 0 the threshold optimize_threshold returns never
\* yields a precision below min_precision, whatever the candidates' scores are.
PrecisionFloorRespected ==
    (o_pc = "returned" /\ FGreater(min_precision, Frac(0, 1))) =>
        ~FGreater(min_precision, ReturnedPrecision)

\* the fold schedule of the ensemble's arguments over the common rows
Schedule == walk_forward_split(Len(valid_idx), init_train, oos_window, step).folds

\* the rows of the common matrices that fold number j (from 1) of the schedule
\* tests
WindowRows(j) ==
    SliceRows(Len(valid_idx), Schedule[j].test_start, Schedule[j].test_end)

\* the merge loop has appended the combined series of at least one fold
Merged == e_pc \in {"merge", "returned"} /\ e_all_y_pred # <<>>

\* C13: in every merged fold and at every position of its test window the
\* combined prediction is the bull model's prediction for that row when the
\* regime of the row is 1 and the bear model's otherwise, and nothing else.
HardGate ==
    Merged =>
        \A j \in 1..Len(e_all_y_pred) :
            /\ Len(e_all_y_pred[j]) = Len(WindowRows(j))
            /\ \A q \in 1..Len(WindowRows(j)) :
                  /\ regime[WindowRows(j)[q] + 1] = 1 =>
                        e_all_y_pred[j][q] = bull_result[j].y_pred[q]
                  /\ regime[WindowRows(j)[q] + 1] # 1 =>
                        e_all_y_pred[j][q] = bear_result[j].y_pred[q]
                  /\ e_all_y_pred[j][q] \in
                        {bull_result[j].y_pred[q], bear_result[j].y_pred[q]}
                  /\ e_all_y_pred[j][q][3] = WindowRows(j)[q]

\* a fold has been merged whose window holds a row of each regime
HardGateWitness ==
    /\ e_pc = "returned"
    /\ \E j \in 1..Len(e_all_y_pred) :
          \E q, r \in 1..Len(e_all_y_pred[j]) :
              /\ e_all_regime[j][q] = 1
              /\ e_all_regime[j][r] = 0
              /\ e_all_y_pred[j][q][1] = "bull"
              /\ e_all_y_pred[j][r][1] = "bear"

\* the rows a sub-result's fold number j predicted, read off its predictions
PredictedRows(res, j) == [q \in 1..Len(res[j].y_pred) |-> res[j].y_pred[q][3]]

\* C14: the two sub-backtests run on equally long, equally aligned matrices
\* with the same init_train/oos_window/step, so they hold the same number of
\* folds, fold k of each covers the same rows, and those rows are the ones the
\* regime series and the ground truth are sliced with for fold k.
SameSchedule ==
    e_pc \in {"split", "merge", "returned"} =>
        /\ Len(y_bull) = Len(valid_idx)
        /\ Len(y_bear) = Len(valid_idx)
        /\ Len(regime) = Len(valid_idx)
        /\ Len(bull_result) = Len(bear_result)
        /\ \A j \in 1..Len(bull_result) :
              /\ bull_result[j].fold_id = bear_result[j].fold_id
              /\ PredictedRows(bull_result, j) = PredictedRows(bear_result, j)
        /\ \A j \in 1..Len(e_all_regime) :
              /\ e_all_regime[j] =
                    [q \in 1..Len(PredictedRows(bull_result, j)) |->
                        regime[PredictedRows(bull_result, j)[q] + 1]]
              /\ e_all_y_true[j] =
                    [q \in 1..Len(PredictedRows(bear_result, j)) |->
                        y_bull[PredictedRows(bear_result, j)[q] + 1]]

SameScheduleWitness ==
    /\ e_pc = "returned"
    /\ Len(bull_result) >= 2
    /\ Len(e_all_regime) = Len(bear_result)
    /\ T_bull # T_bear

\* C15: a row whose label is missing in either label series is in neither
\* matrix: the common index holds only rows labelled in both series.
MissingLabelsExcluded ==
    e_pc \in {"bull", "bear", "split", "merge", "returned"} =>
        \A j \in 1..Len(valid_idx) :
            /\ bull_label[valid_idx[j]] # None
            /\ bear_label[valid_idx[j]] # None

\* C16: combined_metrics scores the combined series against the bull labels of
\* the merged folds' test windows, at every position whatever its regime; the
\* bear labels do not enter.
GroundTruthIsBull ==
    /\ Merged =>
          \A j \in 1..Len(e_all_y_true) :
              e_all_y_true[j] = [q \in 1..Len(WindowRows(j)) |->
                                   y_bull[WindowRows(j)[q] + 1]]
    /\ e_pc = "returned" =>
          combined_metrics =
              Some(compute_metrics(
                  Concat([j \in 1..Len(Schedule) |->
                             [q \in 1..Len(WindowRows(j)) |->
                                 y_bull[WindowRows(j)[q] + 1]]]),
                  Concat(e_all_y_pred)))

\* a row of bear regime has been scored where the two models' labels differ
GroundTruthIsBullWitness ==
    /\ e_pc = "returned"
    /\ \E j \in 1..Len(e_all_y_true) :
          \E q \in 1..Len(e_all_y_true[j]) :
              /\ e_all_regime[j][q] = 0
              /\ y_bull[WindowRows(j)[q] + 1] # y_bear[WindowRows(j)[q] + 1]

\* the folds of the schedule the merge loop has visited
VisitedFolds == SubSeq(Schedule, 1, Len(Schedule) - Len(e_folds))

InBull(f) == f.fold_id < Len(bull_result)
InBear(f) == f.fold_id < Len(bear_result)

\* the visited folds that one sub-result holds and the other lacks
OneSided(f) == InBull(f) # InBear(f)

\* the visited folds both sub-results hold
TwoSided(f) == InBull(f) /\ InBear(f)

NeverOneClass ==
    o_pc = "returned" =>
        ~OneClassOnly(apply_threshold(o_y_proba, best_threshold))

\* the candidate sequence of the call
Candidates == IF thresholds = None THEN DefaultGrid ELSE thresholds[1]

PredAt(i) == apply_threshold(o_y_proba, Candidates[i])

ScoreAt(i) == Score(metric, o_y_true, PredAt(i))

\* the positions of the candidates that are not skipped
Admissible ==
    {i \in 1..Len(Candidates) :
        /\ ~OneClassOnly(PredAt(i))
        /\ ~BelowFloor(o_y_true, PredAt(i), min_precision)}

\* the positions of the candidates attaining the maximum score among them
MaximalOf(adm, sc) ==
    {i \in adm : sc[i] # NaN /\ \A j \in adm : ~FGreater(sc[j], sc[i])}

Maximal ==
    CHOOSE mx \in {MaximalOf(adm, [i \in adm |-> ScoreAt(i)]) :
                      adm \in {Admissible}} : TRUE

FirstOf(S) == CHOOSE i \in S : \A j \in S : i <= j

Ascending(q) == \A i, j \in 1..Len(q) : i < j => q[i] <= q[j]

\* the original statement of C22: the first of the tied candidates is returned,
\* and it is the lowest threshold among the ties for every candidate list
TieBreakFirstIsLowest ==
    o_pc = "returned" =>
        \A mx \in {Maximal} \ {{}} :
            /\ best_threshold = Candidates[FirstOf(mx)]
            /\ \A i \in mx : best_threshold <= Candidates[i]

\* C22: when several candidates attain the maximum score among the non-skipped
\* candidates, the one returned is the first of them in the candidate sequence,
\* with that score; it is the lowest threshold among the ties when the candidate
\* sequence is ascending.
TieBreakFirst ==
    o_pc = "returned" =>
        \A mx \in {Maximal} \ {{}} :
            /\ best_threshold = Candidates[FirstOf(mx)]
            /\ best_score = ScoreAt(FirstOf(mx))
            /\ Ascending(Candidates) =>
                  \A i \in mx : best_threshold <= Candidates[i]

\* two different thresholds tie at the maximum and the first one is returned
TieBreakFirstWitness ==
    /\ o_pc = "returned"
    /\ \E mx \in {Maximal} :
          /\ \E i, j \in mx : Candidates[i] < Candidates[j]
          /\ best_threshold = Candidates[FirstOf(mx)]

\* the value is 1.0
IsOne(v) == v.den # 0 /\ v.num = v.den

\* y_proba equals y_true exactly, as 0.0 / 1.0
Separable == o_y_proba = [i \in 1..Len(o_y_true) |-> 1000 * o_y_true[i]]

\* optimize_threshold(y_true, y_proba, "f1") over the default grid has returned
\* on such input
SeparableCall ==
    /\ o_pc = "returned"
    /\ metric = "f1"
    /\ thresholds = None
    /\ Separable

\* the original statement of C23: every such call returns score 1.0 and a
\* threshold that reproduces y_true
PerfectOnSeparable ==
    SeparableCall =>
        /\ IsOne(best_score)
        /\ apply_threshold(o_y_proba, best_threshold) = o_y_true

\* C23: for separable input (y_proba equal to y_true, as 0.0 / 1.0) in which
\* y_true holds both classes, optimize_threshold with the F1 objective and the
\* default grid returns score 1.0 and a threshold t for which
\* apply_threshold(y_proba, t) reproduces y_true.
PerfectOnTwoClassSeparable ==
    (SeparableCall /\ SeqRange(o_y_true) = {0, 1}) =>
        /\ IsOne(best_score)
        /\ apply_threshold(o_y_proba, best_threshold) = o_y_true

PerfectOnTwoClassSeparableWitness ==
    /\ SeparableCall
    /\ SeqRange(o_y_true) = {0, 1}
    /\ IsOne(best_score)
    /\ best_threshold = 200

(* ---------------------------------------------------------------------- *)
\* the arguments meet the preconditions of the fold-count formula
CountPreconditions ==
    /\ init_train < n_samples
    /\ init_train + oos_window <= n_samples
    /\ step >= 1

\* the test ranges of walk_forward_split(100, 60, 10, 10)
ExampleTestRanges ==
    LET fs == walk_forward_split(100, 60, 10, 10).folds
    IN  [j \in 1..Len(fs) |-> <<fs[j].test_start, fs[j].test_end>>]

\* C24: when init_train < n_samples, init_train + oos_window <= n_samples and
\* step >= 1, walk_forward_split returns exactly
\* floor((n_samples - init_train - oos_window) / step) + 1 folds, fold k (from
\* 0) having train range [0, init_train + k*step) and test range
\* [init_train + k*step, init_train + k*step + oos_window); the arguments
\* (100, 60, 10, 10) give the test ranges [60,70), [70,80), [80,90), [90,100).
FoldCount ==
    /\ (pc \notin {"wfs_check", "wfs_loop"} /\ CountPreconditions) =>
          /\ SplitReturned
          /\ Len(folds) = (n_samples - init_train - oos_window) \div step + 1
          /\ \A j \in 1..Len(folds) :
                /\ folds[j].train_start = 0
                /\ folds[j].train_end = init_train + (j - 1) * step
                /\ folds[j].test_start = init_train + (j - 1) * step
                /\ folds[j].test_end = init_train + (j - 1) * step + oos_window
    /\ ExampleTestRanges = <<<<60, 70>>, <<70, 80>>, <<80, 90>>, <<90, 100>>>>

\* a call with positive arguments and step 2 whose quotient is rounded down
FoldCountWitness ==
    /\ SplitReturned
    /\ CountPreconditions
    /\ init_train >= 1
    /\ oos_window >= 1
    /\ step = 2
    /\ (n_samples - init_train - oos_window) % step = 1
    /\ Len(folds) = 1

(* ---------------------------------------------------------------------- *)
\* no two folds of the list share a test index, as ranges and as slices of the
\* data
TestWindowsDisjoint ==
    \A i, j \in 1..Len(folds) :
        i < j =>
            /\ (folds[i].test_start..(folds[i].test_end - 1))
                  \cap (folds[j].test_start..(folds[j].test_end - 1)) = {}
            /\ SeqRange(TestRows(folds[i])) \cap SeqRange(TestRows(folds[j])) = {}

\* no row occurs twice in the sequence
NoRepeat(q) == \A a, b \in 1..Len(q) : a # b => q[a] # q[b]

RegistryAppendOnly ==
    [][/\ \A n \in DOMAIN MODEL_REGISTRY :
             /\ n \in DOMAIN MODEL_REGISTRY'
             /\ MODEL_REGISTRY'[n] = MODEL_REGISTRY[n]
       /\ r_call'.op \in {"get_model_class", "create_model", "list_models"} =>
             MODEL_REGISTRY' = MODEL_REGISTRY]_vars

\* C27: get_model_class and create_model on a name that is not registered raise
\* KeyError, construct no model and leave the registry unchanged; on a
\* registered name, get_model_class returns the registered class and
\* create_model returns a new object of the registered class that satisfies the
\* BaseModel interface, the registry again unchanged.
UnknownNameRejected ==
    [][r_call'.op \in {"get_model_class", "create_model"} =>
          /\ MODEL_REGISTRY' = MODEL_REGISTRY
          /\ IF r_call'.name \notin DOMAIN MODEL_REGISTRY
             THEN /\ r_error' = "KeyError"
                  /\ r_value' = None
                  /\ instances' = instances
             ELSE /\ r_error' = NoError
                  /\ r_call'.op = "get_model_class" =>
                        /\ r_value' = Some(MODEL_REGISTRY[r_call'.name])
                        /\ instances' = instances
                  /\ r_call'.op = "create_model" =>
                        /\ Len(instances') = Len(instances) + 1
                        /\ SubSeq(instances', 1, Len(instances)) = instances
                        /\ r_value' = Some(Len(instances'))
                        /\ instances'[Len(instances')].cls =
                              MODEL_REGISTRY[r_call'.name]
                        /\ IsBaseModel(instances'[Len(instances')])]_vars

\* create_model of an unregistered name was rejected after a model had been
\* created from a registered one
UnknownNameRejectedWitness ==
    /\ r_call = [op |-> "create_model", name |-> "nonexistent"]
    /\ r_error = "KeyError"
    /\ "lightgbm" \in DOMAIN MODEL_REGISTRY
    /\ instances # <<>>

(* ---------------------------------------------------------------------- *)
\* C28: two calls of walk_forward_split with the same four arguments return
\* identical fold lists (or both raise): the second call, which starts from the
\* state the first one left, does what the first did.
SplitDeterministic ==
    (earlier # None /\ pc \in {"for", "raised"}) => Outcome = earlier[1]

\* both calls returned the same list of at least two folds
SplitDeterministicWitness ==
    /\ earlier # None
    /\ pc = "for"
    /\ Len(folds) >= 2
    /\ earlier[1].folds = folds

(* ---------------------------------------------------------------------- *)
RECURSIVE Overlaid(_, _)
\* base with override laid over it: override's value at every key it sets,
\* except that two dicts meeting at a key are merged in the same way
Overlaid(b, o) ==
    DictV([key \in DOMAIN b.items \cup DOMAIN o.items |->
             IF key \notin DOMAIN o.items THEN b.items[key]
             ELSE IF key \in DOMAIN b.items /\ IsDict(b.items[key])
                        /\ IsDict(o.items[key])
                  THEN Overlaid(b.items[key], o.items[key])
                  ELSE o.items[key]])

\* C29: _deep_merge(base, override) returns a new dict in which override wins
\* at every key it sets, dicts on both sides being merged recursively so that
\* keys found only in base are kept; base and override have the values they
\* had before the call, and the result shares no dict object with either.
DeepMergeFresh ==
    dm_pc = "returned" =>
        /\ View(heap, dm_result[1]) = Overlaid(base_value, override_value)
        /\ View(heap, DictAt(dm_base)) = base_value
        /\ View(heap, DictAt(dm_override)) = override_value
        /\ Reach(heap, dm_result[1])
              \cap (Reach(heap, DictAt(dm_base))
                       \cup Reach(heap, DictAt(dm_override))) = {}

\* nested dicts met at a key: the base-only key b is kept, a is overridden, and
\* override brought a nested dict of its own under b
DeepMergeFreshWitness ==
    /\ dm_pc = "returned"
    /\ base_value = DictV([key \in {"a"} |->
                              DictV([x \in {"a", "b"} |-> IntV(1)])])
    /\ DOMAIN override_value.items = {"a", "b"}
    /\ override_value.items["a"] = DictV([x \in {"a"} |-> IntV(2)])
    /\ IsDict(override_value.items["b"])
    /\ View(heap, dm_result[1]).items["a"] =
          DictV([x \in {"a", "b"} |-> IF x = "a" THEN IntV(2) ELSE IntV(1)])

(* ---------------------------------------------------------------------- *)
\* C30: in the series generate_reversal_labels returns, a row whose look-ahead
\* window triggers both conditions is labelled 0 (the drop takes priority), a
\* row that triggers neither is labelled 1, and the last T rows are NaN.
DropTakesPriority ==
    e_pc = "labelled" =>
        \A p \in 0..(Len(close) - 1) :
            IF p >= Len(close) - T_bull
            THEN bull_label[p] = None
            ELSE /\ (Drops(KeptRows(0), p, T_bull, LabelX)
                        /\ Rises(KeptRows(0), p, T_bull, LabelX)) =>
                       bull_label[p] = Some(0)
                 /\ (~Drops(KeptRows(0), p, T_bull, LabelX)
                        /\ ~Rises(KeptRows(0), p, T_bull, LabelX)) =>
                       bull_label[p] = Some(1)

====
